---- MODULE Spec2Model ----
(***************************************************************************)
(* Point of sale of Kanteliqour: the cart, the pricing calculation, the    *)
(* finalize of a sale (processPayment) and the document store behind it.   *)
(*                                                                         *)
(* The repository holds two variants of the program:                       *)
(*   "fs"  the hosted document store (Firestore): src/unnamed/part_002 and *)
(*         the POS of src/pages/Dashboard.tsx lines 273-801; every store   *)
(*         call is awaited, so a finalize is a sequence of steps;          *)
(*   "ls"  the localStorage store: src/services/db.ts and the POS of       *)
(*         src/pages/Dashboard.tsx lines 820-1167; every call is           *)
(*         synchronous, so a finalize is one step.                         *)
(*                                                                         *)
(* Money: subtotal, tax and total are in thousandths of a currency unit    *)
(* and a tax rate is in tenths of a percent (16.5% is 165), so that        *)
(* subtotal * rate / 100 is exact integer arithmetic.  The rounding of the *)
(* binary floating point of the program is not modelled.  A sale's date,   *)
(* cashier name and payment method are not modelled (the date is read from *)
(* the same clock as the identifier).                                      *)
(*                                                                         *)
(* Spec is the point of sale with two sessions.  SpecPricing, SpecCart and *)
(* SpecReport apply the pricing calculation, the cart handlers and the     *)
(* profit and loss report to inputs drawn from bounded sets; SpecCache is  *)
(* one client of db.products with its cache, SpecReads one client of the   *)
(* three reads of the store, SpecApp the App with its login, navigation    *)
(* and logout, SpecInventory the Inventory page.                           *)
(***************************************************************************)
EXTENDS Integers, Sequences, FiniteSets, TLC

\* ---------------------------------------------------------------- bounds
MaxTime == 2        \* the millisecond clock runs over 1..MaxTime
MaxSales == 2       \* confirmed payments in one behaviour
MaxInFlight == 1    \* task slots (running or last failed) per session
MaxCartOps == 2     \* add / quantity / remove clicks in one behaviour
MaxFailures == 1    \* store calls that are rejected in one behaviour
MaxPricingQty == 3  \* largest quantity of a line the pricing calculation is tried on
MaxCartStock == 2   \* largest stock of a product the cart handlers are tried on
MaxDelta == 2       \* largest step of a quantity change the cart handlers are tried on
MaxAppOps == 3      \* logins, logouts and provider changes in one behaviour
MaxInvOps == 5      \* clicks, typed values and outside changes in one behaviour
MaxAdjustQty == 3   \* largest quantity set in the stock adjustment dialog

\* ------------------------------------------------------------ the world
Sessions == {"s1", "s2"}
ProductIds == {"p1", "p2"}
Variants == {"fs", "ls"}
\* the tax rates a settings document of the store may hold, tenths of a percent
TaxRates == {100}

None == << >>
Some(x) == << x >>

Max(a, b) == IF a >= b THEN a ELSE b

\* INITIAL_PRODUCTS: its first two products, their stocks (24 and 12) scaled
\* down so that a few clicks reach the stock limit and a few sales use it up
INITIAL_PRODUCTS ==
  [p \in ProductIds |->
     IF p = "p1" THEN [id |-> "p1", price |-> 45000, costPrice |-> 35000, stock |-> 2]
                 ELSE [id |-> "p2", price |-> 18000, costPrice |-> 12000, stock |-> 1]]

EmptyCatalog == [p \in {} |-> 0]

\* DEFAULT_SETTINGS.taxRate, 16.5 percent
DEFAULT_TAX_RATE == 165

VARIABLES
  variant,        \* which of the two programs runs
  now,            \* Date.now()
  dbProducts,     \* store: the products collection, id -> document
  dbSales,        \* store: the sales collection / array
  dbLogs,         \* store: the activity_logs collection
  dbSettings,     \* store: the settings/general document, None when absent
  products,       \* POS.products: the catalog loaded in the session
  storeSettings,  \* POS.storeSettings
  cart,           \* POS.cart
  isCheckingOut,  \* POS.isCheckingOut: the payment dialog is open
  receiptSale,    \* POS.receiptSale: the receipt dialog shows this sale
  isLoading,      \* POS.isLoading
  productCache,   \* module variable productCache of each session
  settingsCache,  \* module variable settingsCache of each session
  tasks,          \* the asynchronous calls of each session
  nConfirm,       \* confirmed payments so far
  nCartOps,       \* cart clicks so far
  nFail,          \* rejected store calls so far
  priced,         \* the totals last computed by the pricing calculation
  call,           \* the last call observed: its arguments and what it returned
  report,         \* the Reports page: what it loaded and its pnlData
  currentUser,    \* App.currentUser, None when null
  currentView,    \* App.currentView
  appLoading,     \* App.isLoading
  authUser,       \* the account signed in at the identity provider, or None
  listening,      \* the auth-state listener has had its first call
  listeners,      \* calls of the listener that await getUserProfile, by uid
  loginTasks,     \* Login.handleLogin calls under way
  loginBusy,      \* Login.isLoading
  signingOut,     \* handleLogout calls whose signOut has not acted yet
  signedOut,      \* handleLogout calls whose signOut acted and has not returned
  nAppOps,        \* logins, logouts and provider changes so far
  inventory,      \* the state of the Inventory page (its useState hooks)
  invTasks,       \* the asynchronous handlers of the Inventory page
  nInvOps         \* clicks, typed values and outside changes so far

vars == << variant, now, dbProducts, dbSales, dbLogs, dbSettings,
           products, storeSettings, cart, isCheckingOut, receiptSale,
           isLoading, productCache, settingsCache, tasks, nConfirm,
           nCartOps, nFail, priced, call, report,
           currentUser, currentView, appLoading, authUser, listening,
           listeners, loginTasks, loginBusy, signingOut, signedOut, nAppOps,
           inventory, invTasks, nInvOps >>

storeVars == << dbProducts, dbSales, dbLogs, dbSettings >>
posVars == << products, storeSettings, cart, isCheckingOut, receiptSale, isLoading >>
countVars == << nConfirm, nCartOps, nFail >>
appVars == << currentUser, currentView, appLoading, authUser, listening,
             listeners, loginTasks, loginBusy, signingOut, signedOut, nAppOps >>
invVars == << inventory, invTasks, nInvOps >>
fixedVars == << variant, priced, call, report, appVars, invVars >>

\* a store call may be rejected while the budget of rejections lasts
Outcomes == IF nFail < MaxFailures THEN {TRUE, FALSE} ELSE {TRUE}

Slots == 1 .. MaxInFlight

\* ------------------------------------------------------ the cart (pure)
HasLine(c, id) == \E i \in 1 .. Len(c) : c[i].id = id

CartLine(product) ==
  [id |-> product.id, price |-> product.price, costPrice |-> product.costPrice,
   stock |-> product.stock, quantity |-> 1]

\* a bug of addToCart: a product without stock is added all the same
addToCart_NoStockCheck(c, product) ==
  IF HasLine(c, product.id)
  THEN LET existing == CHOOSE i \in 1 .. Len(c) : c[i].id = product.id
       IN IF c[existing].quantity >= product.stock THEN c
          ELSE [i \in 1 .. Len(c) |->
                  IF c[i].id = product.id
                  THEN [c[i] EXCEPT !.quantity = @ + 1] ELSE c[i]]
  ELSE Append(c, CartLine(product))

\* POS.addToCart: the value setCart stores
addToCart(c, product) ==
  IF product.stock <= 0 THEN c
  ELSE IF HasLine(c, product.id)
       THEN LET existing == CHOOSE i \in 1 .. Len(c) : c[i].id = product.id
            IN IF c[existing].quantity >= product.stock THEN c
               ELSE [i \in 1 .. Len(c) |->
                       IF c[i].id = product.id
                       THEN [c[i] EXCEPT !.quantity = @ + 1] ELSE c[i]]
       ELSE Append(c, CartLine(product))

\* a bug of updateQuantity: the stock limit is not checked
updateQuantity_NoLimit(c, prods, id, delta) ==
  [i \in 1 .. Len(c) |->
     IF c[i].id = id THEN [c[i] EXCEPT !.quantity = Max(1, @ + delta)] ELSE c[i]]

\* POS.updateQuantity: the value setCart stores; prods is POS.products
updateQuantity(c, prods, id, delta) ==
  [i \in 1 .. Len(c) |->
     IF c[i].id = id
     THEN LET newQty == Max(1, c[i].quantity + delta)
          IN IF id \in DOMAIN prods /\ newQty > prods[id].stock
             THEN c[i]
             ELSE [c[i] EXCEPT !.quantity = newQty]
     ELSE c[i]]

\* POS.removeFromCart
removeFromCart(c, id) == SelectSeq(c, LAMBDA item : item.id # id)

\* ---------------------------------------------------- pricing (pure)
RECURSIVE CartSum(_)
\* cart.reduce((acc, item) => acc + item.price * item.quantity, 0), in units
CartSum(c) ==
  IF c = << >> THEN 0
  ELSE c[1].price * c[1].quantity + CartSum(Tail(c))

\* the totals for a rate in tenths of a percent, in thousandths of a unit
Totals(c, rate) ==
  [subtotal |-> CartSum(c) * 1000,
   tax |-> CartSum(c) * rate,
   total |-> CartSum(c) * 1000 + CartSum(c) * rate]

\* storeSettings?.taxRate ? storeSettings.taxRate / 100 : 0.165
taxRate(settings) ==
  IF settings # None /\ settings[1] # 0 THEN settings[1] ELSE 165

\* POS.cartTotals of the document store variant
cartTotals(c, settings) == Totals(c, taxRate(settings))

\* POS.cartTotals of the localStorage variant: subtotal * 0.165
cartTotalsLs(c) == Totals(c, 165)

\* the totals the running variant computes
PosTotals(c, settings) ==
  IF variant = "fs" THEN cartTotals(c, settings) ELSE cartTotalsLs(c)

\* ------------------------------------------------------ the sale record
\* a bug of the sale items: the line total is the unit price
SaleItems_UnitTotal(c) ==
  [i \in 1 .. Len(c) |->
     [productId |-> c[i].id, quantity |-> c[i].quantity, price |-> c[i].price,
      costPrice |-> c[i].costPrice, total |-> c[i].price]]

\* cart.map(item => ({productId, name, quantity, price, costPrice, total}))
SaleItems(c) ==
  [i \in 1 .. Len(c) |->
     [productId |-> c[i].id, quantity |-> c[i].quantity, price |-> c[i].price,
      costPrice |-> c[i].costPrice, total |-> c[i].price * c[i].quantity]]

\* the localStorage variant stores no cost price
SaleItemsLs(c) ==
  [i \in 1 .. Len(c) |->
     [productId |-> c[i].id, quantity |-> c[i].quantity, price |-> c[i].price,
      total |-> c[i].price * c[i].quantity]]

\* the sale processPayment builds from the state of the render it runs in
BuildSale(s, t) ==
  LET tot == PosTotals(cart[s], storeSettings[s])
  IN [id |-> t, cashierId |-> s,
      items |-> IF variant = "fs" THEN SaleItems(cart[s]) ELSE SaleItemsLs(cart[s]),
      subtotal |-> tot.subtotal, tax |-> tot.tax, total |-> tot.total]

\* ------------------------------------------------------------ the store
HasDoc(coll, id) == \E i \in 1 .. Len(coll) : coll[i].id = id

\* setDoc(doc(db, coll, id), data): create the document or overwrite it
SetDoc(coll, d) ==
  IF HasDoc(coll, d.id)
  THEN [i \in 1 .. Len(coll) |-> IF coll[i].id = d.id THEN d ELSE coll[i]]
  ELSE Append(coll, d)

\* db.sales.add of the document store
salesAdd(coll, sale) == SetDoc(coll, sale)

\* db.sales.add of localStorage: sales.push(sale)
salesAddLs(coll, sale) == Append(coll, sale)

\* db.products.reduceStock of the document store: increment(-qty)
reduceStock(cat, id, qty) == [cat EXCEPT ![id].stock = @ - qty]

\* db.products.reduceStock of localStorage: Math.max(0, stock - qty)
reduceStockLs(cat, id, qty) ==
  IF id \in DOMAIN cat THEN [cat EXCEPT ![id].stock = Max(0, @ - qty)] ELSE cat

\* ------------------------------------------------- asynchronous calls
(* A task is one asynchronous call of a session: processPayment ("pay") or *)
(* the fetchData of a mount ("load").  pc is the await it is suspended at. *)
(* A call that has returned leaves its slot idle; a processPayment that    *)
(* was ended by a rejected store call leaves a record of how far it got:   *)
(* failedAt, idx (the line whose decrement was rejected), applied (the     *)
(* lines whose decrement was applied) and lines (the lines of its cart).   *)
(* No action reads that record.                                            *)
IdleTask ==
  [kind |-> "none", pc |-> "idle",
   cart |-> << >>, settings |-> None, sale |-> None, idx |-> 0,
   srcP |-> "none", snapP |-> None, srcS |-> "none", snapS |-> None,
   applied |-> {}, failedAt |-> "none", lines |-> 0]

Finished(t) == t.pc \in {"idle", "failed"}

HasFreeSlot(s) == \E k \in Slots : Finished(tasks[s][k])
FreeSlot(s) == CHOOSE k \in Slots :
                 /\ Finished(tasks[s][k])
                 /\ \A j \in Slots : Finished(tasks[s][j]) => k <= j

\* the call of fetchData: getAll and settings.get answer from the cache
\* when there is one, and go to the store otherwise
StartFetch(t, pcache, scache) ==
  [t EXCEPT !.pc = IF pcache # None /\ scache # None THEN "resolve" ELSE "fetch",
            !.srcP = IF pcache # None THEN "cache" ELSE "pending",
            !.snapP = pcache,
            !.srcS = IF scache # None THEN "cache" ELSE "pending",
            !.snapS = scache]

\* the record a processPayment leaves when the store call `at` rejects
Failed(t, at) ==
  [IdleTask EXCEPT !.kind = "pay", !.pc = "failed", !.failedAt = at,
                   !.idx = t.idx, !.applied = t.applied, !.lines = Len(t.cart)]

\* a bug of processPayment: a rejected db.sales.add is swallowed
OnSaleAddFail_Swallowed(t) == [t EXCEPT !.pc = "logAdd", !.failedAt = "saleAdd"]

\* await db.sales.add(sale) rejects: processPayment ends there
OnSaleAddFail(t) == Failed(t, "saleAdd")

\* no dialog covers the screen
PosIdle(s) == ~isCheckingOut[s] /\ receiptSale[s] = None

\* --------------------------------------------------------- the App
\* the App as mounted: useState(null), useState('dashboard'), useState(true);
\* session is the account the identity provider has kept signed in
AppMount(session) ==
  /\ currentUser = None
  /\ currentView = "dashboard"
  /\ appLoading = TRUE
  /\ authUser = session
  /\ listening = FALSE
  /\ listeners = {}
  /\ loginTasks = {}
  /\ loginBusy = FALSE
  /\ signingOut = 0
  /\ signedOut = 0
  /\ nAppOps = 0

\* ------------------------------------- the Inventory page, unmounted
\* a handler that is not running
IdleHandler == [pc |-> "idle", op |-> "none", product |-> None, editing |-> None,
                by |-> None]

\* the page before it is mounted
InventoryUnmounted ==
  /\ inventory = None
  /\ invTasks = [k \in {"load", "save", "adjust", "delete"} |-> IdleHandler]
  /\ nInvOps = 0

\* ------------------------------------------------------------ Init
Init ==
  /\ variant \in Variants
  /\ now = 1
  /\ dbProducts \in IF variant = "fs" THEN {INITIAL_PRODUCTS, EmptyCatalog}
                                     ELSE {INITIAL_PRODUCTS}
  /\ dbSales = << >>
  /\ dbLogs = << >>
  /\ dbSettings \in IF variant = "fs" THEN {None} \cup {Some(r) : r \in TaxRates}
                                     ELSE {None}
  /\ products = [s \in Sessions |-> IF variant = "fs" THEN EmptyCatalog ELSE INITIAL_PRODUCTS]
  /\ storeSettings = [s \in Sessions |-> None]
  /\ cart = [s \in Sessions |-> << >>]
  /\ isCheckingOut = [s \in Sessions |-> FALSE]
  /\ receiptSale = [s \in Sessions |-> None]
  /\ isLoading = [s \in Sessions |-> variant = "fs"]
  /\ productCache = [s \in Sessions |-> None]
  /\ settingsCache = [s \in Sessions |-> None]
  /\ tasks = [s \in Sessions |-> [k \in Slots |->
                IF variant = "fs" /\ k = 1
                THEN StartFetch([IdleTask EXCEPT !.kind = "load"], None, None)
                ELSE IdleTask]]
  /\ nConfirm = 0
  /\ nCartOps = 0
  /\ nFail = 0
  /\ priced = None
  /\ call = None
  /\ report = None
  /\ AppMount(None)
  /\ InventoryUnmounted

\* ------------------------------------------------------------ the clock
\* Date.now(): the clock has gone on by any amount since it was last read
Clock == now .. MaxTime

\* ------------------------------------------------------- cart handlers
AddToCart(s, p) ==
  /\ PosIdle(s)
  /\ nCartOps < MaxCartOps
  /\ nCartOps' = nCartOps + 1
  /\ ~isLoading[s]
  /\ p \in DOMAIN products[s]
  /\ cart' = [cart EXCEPT ![s] = addToCart(@, products[s][p])]
  /\ UNCHANGED << fixedVars, now, storeVars, products, storeSettings,
                  isCheckingOut, receiptSale, isLoading, productCache,
                  settingsCache, tasks, nConfirm, nFail >>

UpdateQuantity(s, id, delta) ==
  /\ PosIdle(s)
  /\ nCartOps < MaxCartOps
  /\ nCartOps' = nCartOps + 1
  /\ HasLine(cart[s], id)
  /\ cart' = [cart EXCEPT ![s] = updateQuantity(@, products[s], id, delta)]
  /\ UNCHANGED << fixedVars, now, storeVars, products, storeSettings,
                  isCheckingOut, receiptSale, isLoading, productCache,
                  settingsCache, tasks, nConfirm, nFail >>

RemoveFromCart(s, id) ==
  /\ PosIdle(s)
  /\ nCartOps < MaxCartOps
  /\ nCartOps' = nCartOps + 1
  /\ HasLine(cart[s], id)
  /\ cart' = [cart EXCEPT ![s] = removeFromCart(@, id)]
  /\ UNCHANGED << fixedVars, now, storeVars, products, storeSettings,
                  isCheckingOut, receiptSale, isLoading, productCache,
                  settingsCache, tasks, nConfirm, nFail >>

\* POS.handleCheckout (Pay Now)
HandleCheckout(s) ==
  /\ PosIdle(s)
  /\ isCheckingOut' = [isCheckingOut EXCEPT ![s] = (cart[s] # << >>)]
  /\ UNCHANGED << fixedVars, now, storeVars, products, storeSettings, cart,
                  receiptSale, isLoading, productCache, settingsCache, tasks,
                  countVars >>

\* a bug of the X of the payment dialog: the cart is emptied too
CancelCheckout_ClearsCart(s) ==
  /\ isCheckingOut[s] /\ receiptSale[s] = None
  /\ isCheckingOut' = [isCheckingOut EXCEPT ![s] = FALSE]
  /\ cart' = [cart EXCEPT ![s] = << >>]
  /\ UNCHANGED << fixedVars, now, storeVars, products, storeSettings,
                  receiptSale, isLoading, productCache, settingsCache, tasks,
                  countVars >>

\* the X of the payment dialog: setIsCheckingOut(false)
CancelCheckout(s) ==
  /\ isCheckingOut[s] /\ receiptSale[s] = None
  /\ isCheckingOut' = [isCheckingOut EXCEPT ![s] = FALSE]
  /\ UNCHANGED << fixedVars, now, storeVars, products, storeSettings, cart,
                  receiptSale, isLoading, productCache, settingsCache, tasks,
                  countVars >>

\* the Close of the receipt dialog: setReceiptSale(null)
CloseReceipt(s) ==
  /\ receiptSale[s] # None
  /\ receiptSale' = [receiptSale EXCEPT ![s] = None]
  /\ UNCHANGED << fixedVars, now, storeVars, products, storeSettings, cart,
                  isCheckingOut, isLoading, productCache, settingsCache, tasks,
                  countVars >>

\* ------------------------------------- processPayment, document store
SaleLog(t, time) ==
  [id |-> time, action |-> "Sale Completed", saleId |-> t.sale[1].id,
   userId |-> t.sale[1].cashierId]

\* Confirm Payment: setIsCheckingOut(false), the sale is built and
\* db.sales.add(sale) is called
ProcessPayment(s) ==
  /\ variant = "fs"
  /\ isCheckingOut[s] /\ receiptSale[s] = None
  /\ nConfirm < MaxSales
  /\ HasFreeSlot(s)
  /\ isCheckingOut' = [isCheckingOut EXCEPT ![s] = FALSE]
  /\ \E t \in Clock :
       /\ now' = t
       /\ tasks' = [tasks EXCEPT ![s][FreeSlot(s)] =
                      [IdleTask EXCEPT !.kind = "pay", !.pc = "saleAdd",
                                       !.cart = cart[s],
                                       !.settings = storeSettings[s],
                                       !.sale = Some(BuildSale(s, t)),
                                       !.lines = Len(cart[s])]]
  /\ nConfirm' = nConfirm + 1
  /\ UNCHANGED << fixedVars, storeVars, products, storeSettings, cart,
                  receiptSale, isLoading, productCache, settingsCache,
                  nCartOps, nFail >>

\* a bug of processPayment: the sale write and the log append are issued
\* together (Promise.all) and the loop over the cart follows
SaleAdd_WithLogInParallel(s, k) ==
  LET t == tasks[s][k] IN
  /\ t.pc = "saleAdd"
  /\ \E ok \in Outcomes :
       /\ nFail' = IF ok THEN nFail ELSE nFail + 1
       /\ IF ok
          THEN /\ dbSales' = salesAdd(dbSales, t.sale[1])
               /\ dbLogs' = SetDoc(dbLogs, SaleLog(t, now))
               /\ tasks' = [tasks EXCEPT ![s][k].pc = "logAdd"]
          ELSE /\ dbSales' = dbSales
               /\ dbLogs' = dbLogs
               /\ tasks' = [tasks EXCEPT ![s][k] = OnSaleAddFail(t)]
  /\ UNCHANGED << fixedVars, now, dbProducts, dbSettings, posVars,
                  productCache, settingsCache, nConfirm, nCartOps >>

\* await db.sales.add(sale) completes, then db.logs.add is called
SaleAdd(s, k) ==
  LET t == tasks[s][k] IN
  /\ t.pc = "saleAdd"
  /\ \E ok \in Outcomes :
       /\ nFail' = IF ok THEN nFail ELSE nFail + 1
       /\ IF ok
          THEN /\ dbSales' = salesAdd(dbSales, t.sale[1])
               /\ tasks' = [tasks EXCEPT ![s][k].pc = "logAdd"]
          ELSE /\ dbSales' = dbSales
               /\ tasks' = [tasks EXCEPT ![s][k] = OnSaleAddFail(t)]
  /\ UNCHANGED << fixedVars, now, dbProducts, dbLogs, dbSettings, posVars,
                  productCache, settingsCache, nConfirm, nCartOps >>

\* a bug of processPayment: a rejected db.logs.add is caught and the loop
\* over the cart goes on
OnLogAddFail_Swallowed(t) ==
  IF t.cart = << >> THEN Failed(t, "logAdd")
  ELSE [t EXCEPT !.pc = "reduce", !.idx = 1, !.failedAt = "logAdd"]

\* await db.logs.add(...) rejects: processPayment ends there
OnLogAddFail(t) == Failed(t, "logAdd")

\* await db.logs.add completes, then the loop over the cart starts or,
\* for an empty cart, fetchData is called
LogAdd(s, k) ==
  LET t == tasks[s][k] IN
  /\ t.pc = "logAdd"
  /\ now' \in Clock
  /\ \E ok \in Outcomes :
       /\ nFail' = IF ok THEN nFail ELSE nFail + 1
       /\ IF ok
          THEN /\ dbLogs' = SetDoc(dbLogs, SaleLog(t, now'))
               /\ IF t.cart # << >>
                  THEN /\ tasks' = [tasks EXCEPT ![s][k].pc = "reduce", ![s][k].idx = 1]
                       /\ isLoading' = isLoading
                  ELSE /\ tasks' = [tasks EXCEPT ![s][k] =
                                      StartFetch(t, productCache[s], settingsCache[s])]
                       /\ isLoading' = [isLoading EXCEPT ![s] = TRUE]
          ELSE /\ dbLogs' = dbLogs
               /\ tasks' = [tasks EXCEPT ![s][k] = OnLogAddFail(t)]
               /\ isLoading' = isLoading
  /\ UNCHANGED << fixedVars, dbProducts, dbSales, dbSettings, products,
                  storeSettings, cart, isCheckingOut, receiptSale, productCache,
                  settingsCache, nConfirm, nCartOps >>

\* a rejected reduceStock ends processPayment: the exception leaves the loop
OnReduceFail(t) == Failed(t, "reduce")

\* await db.products.reduceStock(item.id, item.quantity) completes for the
\* line idx, then the next line follows or fetchData is called; updateDoc
\* rejects when the document does not exist
ReduceStock(s, k) ==
  LET t == tasks[s][k]
      item == t.cart[t.idx]
  IN
  /\ t.pc = "reduce"
  /\ \E ok \in Outcomes :
       /\ nFail' = IF ok THEN nFail ELSE nFail + 1
       /\ IF ok /\ item.id \in DOMAIN dbProducts
          THEN /\ dbProducts' = reduceStock(dbProducts, item.id, item.quantity)
               /\ productCache' = [productCache EXCEPT ![s] = None]
               /\ LET t1 == [t EXCEPT !.applied = @ \cup {t.idx}]
                  IN tasks' = [tasks EXCEPT ![s][k] =
                       IF t.idx < Len(t.cart)
                       THEN [t1 EXCEPT !.idx = @ + 1]
                       ELSE StartFetch(t1, None, settingsCache[s])]
               /\ isLoading' = IF t.idx = Len(t.cart)
                               THEN [isLoading EXCEPT ![s] = TRUE] ELSE isLoading
          ELSE /\ dbProducts' = dbProducts
               /\ productCache' = productCache
               /\ tasks' = [tasks EXCEPT ![s][k] = OnReduceFail(t)]
               /\ isLoading' = isLoading
  /\ UNCHANGED << fixedVars, now, dbSales, dbLogs, dbSettings, products,
                  storeSettings, cart, isCheckingOut, receiptSale, settingsCache,
                  nConfirm, nCartOps >>

\* ------------------------------------------------------------ fetchData
\* the store answers the reads of getAll and settings.get that are pending
FetchRead(s, k) ==
  LET t == tasks[s][k] IN
  /\ t.pc = "fetch"
  /\ \E okP \in Outcomes, okS \in Outcomes :
       /\ nFail' = IF okP /\ okS THEN nFail ELSE nFail + 1
       /\ tasks' = [tasks EXCEPT ![s][k] =
            [t EXCEPT
               !.pc = "resolve",
               !.srcP = IF t.srcP # "pending" THEN @ ELSE IF okP THEN "net" ELSE "fail",
               !.snapP = IF t.srcP # "pending" THEN @
                         ELSE IF ~okP THEN None
                         ELSE IF dbProducts = EmptyCatalog THEN Some(INITIAL_PRODUCTS)
                         ELSE Some(dbProducts),
               !.srcS = IF t.srcS # "pending" THEN @
                        ELSE IF okS /\ dbSettings # None THEN "net" ELSE "default",
               !.snapS = IF t.srcS # "pending" THEN @
                         ELSE IF okS /\ dbSettings # None THEN dbSettings
                         ELSE Some(DEFAULT_TAX_RATE)]]
  /\ UNCHANGED << fixedVars, now, storeVars, posVars, productCache,
                  settingsCache, nConfirm, nCartOps >>

\* a bug of getAll: the catch branch returns [] as the other getAll do
GetAllResult_EmptyOnFail(s, t) ==
  IF t.srcP = "fail" THEN EmptyCatalog ELSE t.snapP[1]

\* what getAll returns: the snapshot, or productCache || INITIAL_PRODUCTS
\* when the read failed
GetAllResult(s, t) ==
  IF t.srcP = "fail"
  THEN (IF productCache[s] # None THEN productCache[s][1] ELSE INITIAL_PRODUCTS)
  ELSE t.snapP[1]

\* the answers arrive: the caches are filled, fetchData sets the state,
\* and processPayment clears the cart and shows the receipt
FetchResolve(s, k) ==
  LET t == tasks[s][k] IN
  /\ t.pc = "resolve"
  /\ productCache' = IF t.srcP = "net" THEN [productCache EXCEPT ![s] = t.snapP]
                     ELSE productCache
  /\ settingsCache' = IF t.srcS = "net" THEN [settingsCache EXCEPT ![s] = t.snapS]
                      ELSE settingsCache
  /\ tasks' = [tasks EXCEPT ![s][k] = IdleTask]
  /\ products' = [products EXCEPT ![s] = GetAllResult(s, t)]
  /\ storeSettings' = [storeSettings EXCEPT ![s] = t.snapS]
  /\ isLoading' = [isLoading EXCEPT ![s] = FALSE]
  /\ cart' = IF t.kind = "pay" THEN [cart EXCEPT ![s] = << >>] ELSE cart
  /\ receiptSale' = IF t.kind = "pay"
                    THEN [receiptSale EXCEPT ![s] = t.sale] ELSE receiptSale
  /\ UNCHANGED << fixedVars, now, storeVars, isCheckingOut, countVars >>

\* --------------------------------------- processPayment, localStorage
RECURSIVE ReduceLinesLs(_, _, _)
\* cart.forEach(item => db.products.reduceStock(item.id, item.quantity)),
\* the first n lines of it
ReduceLinesLs(cat, c, n) ==
  IF n = 0 THEN cat
  ELSE reduceStockLs(ReduceLinesLs(cat, c, n - 1), c[n].id, c[n].quantity)

\* Confirm Payment, synchronous.  f is the call that throws: 0 the sale
\* write, j the stock write of line j, Len(cart) + 1 none; a throw leaves
\* the handler, so the state setters at its end do not run
LsProcessPayment(s) ==
  /\ variant = "ls"
  /\ isCheckingOut[s] /\ receiptSale[s] = None
  /\ nConfirm < MaxSales
  /\ now' \in Clock
  /\ \E f \in 0 .. Len(cart[s]) + 1 :
       /\ f <= Len(cart[s]) => nFail < MaxFailures
       /\ nFail' = IF f <= Len(cart[s]) THEN nFail + 1 ELSE nFail
       /\ LET sale == BuildSale(s, now')
              n == Len(cart[s])
              cat == ReduceLinesLs(dbProducts, cart[s], IF f = 0 THEN 0 ELSE f - 1)
              t0 == [IdleTask EXCEPT !.kind = "pay", !.cart = cart[s],
                                     !.sale = Some(sale), !.lines = n]
          IN /\ dbSales' = IF f = 0 THEN dbSales ELSE salesAddLs(dbSales, sale)
             /\ dbProducts' = cat
             /\ tasks' = [tasks EXCEPT ![s][1] =
                  IF f = 0 THEN OnSaleAddFail(t0)
                  ELSE IF f <= n
                       THEN OnReduceFail([t0 EXCEPT !.idx = f, !.applied = 1 .. (f - 1)])
                       ELSE IdleTask]
             /\ IF f = n + 1
                THEN /\ products' = [products EXCEPT ![s] = cat]
                     /\ cart' = [cart EXCEPT ![s] = << >>]
                     /\ isCheckingOut' = [isCheckingOut EXCEPT ![s] = FALSE]
                     /\ receiptSale' = [receiptSale EXCEPT ![s] = Some(sale)]
                ELSE UNCHANGED << products, cart, isCheckingOut, receiptSale >>
  /\ nConfirm' = nConfirm + 1
  /\ UNCHANGED << fixedVars, dbLogs, dbSettings, storeSettings,
                  isLoading, productCache, settingsCache, nCartOps >>

\* ----------------------------------------------------- specification
Next ==
  \/ \E s \in Sessions, p \in ProductIds : AddToCart(s, p)
  \/ \E s \in Sessions, p \in ProductIds, d \in {-1, 1} : UpdateQuantity(s, p, d)
  \/ \E s \in Sessions, p \in ProductIds : RemoveFromCart(s, p)
  \/ \E s \in Sessions : HandleCheckout(s)
  \/ \E s \in Sessions : CancelCheckout(s)
  \/ \E s \in Sessions : CloseReceipt(s)
  \/ \E s \in Sessions : ProcessPayment(s)
  \/ \E s \in Sessions, k \in Slots : SaleAdd(s, k)
  \/ \E s \in Sessions, k \in Slots : LogAdd(s, k)
  \/ \E s \in Sessions, k \in Slots : ReduceStock(s, k)
  \/ \E s \in Sessions, k \in Slots : FetchRead(s, k)
  \/ \E s \in Sessions, k \in Slots : FetchResolve(s, k)
  \/ \E s \in Sessions : LsProcessPayment(s)

Spec == Init /\ [][Next]_vars

\* ------------------------------------- the pricing calculation, on its own
(* The pricing calculation is a pure function of the cart and the settings *)
(* of the render.  SpecPricing starts a session with any cart of at most   *)
(* one line per product and any tax rate configured, and evaluates it.     *)
PricingSession == "s1"

\* a catalog with enough stock for the quantities tried
PricingCatalog ==
  [p \in ProductIds |-> [INITIAL_PRODUCTS[p] EXCEPT !.stock = MaxPricingQty]]

PricingLines ==
  {[CartLine(PricingCatalog[p]) EXCEPT !.quantity = q] :
     p \in ProductIds, q \in 1 .. MaxPricingQty}

PricingInit ==
  /\ variant \in Variants
  /\ now = 1
  /\ dbProducts = PricingCatalog
  /\ dbSales = << >>
  /\ dbLogs = << >>
  /\ dbSettings = None
  /\ products = [s \in Sessions |-> PricingCatalog]
  /\ \E st \in IF variant = "fs" THEN {None} \cup {Some(r) : r \in {0, 100, 165}}
                                ELSE {None} :
       storeSettings = [s \in Sessions |-> IF s = PricingSession THEN st ELSE None]
  /\ \E c \in {<< >>} \cup {<< l >> : l \in PricingLines}
               \cup {c \in {<< l, m >> : l \in PricingLines, m \in PricingLines} :
                       c[1].id # c[2].id} :
       cart = [s \in Sessions |-> IF s = PricingSession THEN c ELSE << >>]
  /\ isCheckingOut = [s \in Sessions |-> FALSE]
  /\ receiptSale = [s \in Sessions |-> None]
  /\ isLoading = [s \in Sessions |-> FALSE]
  /\ productCache = [s \in Sessions |-> None]
  /\ settingsCache = [s \in Sessions |-> None]
  /\ tasks = [s \in Sessions |-> [k \in Slots |-> IdleTask]]
  /\ nConfirm = 0
  /\ nCartOps = 0
  /\ nFail = 0
  /\ priced = None
  /\ call = None
  /\ report = None
  /\ AppMount(None)
  /\ InventoryUnmounted

\* the render evaluates cartTotals
Price ==
  /\ priced = None
  /\ priced' = Some(PosTotals(cart[PricingSession], storeSettings[PricingSession]))
  /\ UNCHANGED << variant, now, storeVars, posVars, productCache, settingsCache,
                  tasks, countVars, call, report, appVars, invVars >>

PricingNext == Price

SpecPricing == PricingInit /\ [][PricingNext]_vars

\* --------------------------------------- the cart handlers, on their own
(* SpecCart starts a session with any catalog of stocks 0 .. MaxCartStock  *)
(* and any cart that fits it, and makes one call of a cart handler with    *)
(* any argument; the call and the cart before it are kept in `call`.       *)
CartSession == "s1"

CartInit ==
  /\ variant \in Variants
  /\ now = 1
  /\ \E st \in [ProductIds -> 0 .. MaxCartStock] :
       LET cat == [p \in ProductIds |-> [INITIAL_PRODUCTS[p] EXCEPT !.stock = st[p]]]
           lines == {[CartLine(cat[p]) EXCEPT !.quantity = q] :
                       p \in ProductIds, q \in 1 .. MaxCartStock}
           fit == {l \in lines : l.quantity <= cat[l.id].stock}
       IN /\ dbProducts = cat
          /\ products = [s \in Sessions |-> cat]
          /\ \E c \in {<< >>} \cup {<< l >> : l \in fit}
                      \cup {c \in {<< l, m >> : l \in fit, m \in fit} :
                              c[1].id # c[2].id} :
               cart = [s \in Sessions |-> IF s = CartSession THEN c ELSE << >>]
  /\ dbSales = << >>
  /\ dbLogs = << >>
  /\ dbSettings = None
  /\ storeSettings = [s \in Sessions |-> None]
  /\ isCheckingOut = [s \in Sessions |-> FALSE]
  /\ receiptSale = [s \in Sessions |-> None]
  /\ isLoading = [s \in Sessions |-> FALSE]
  /\ productCache = [s \in Sessions |-> None]
  /\ settingsCache = [s \in Sessions |-> None]
  /\ tasks = [s \in Sessions |-> [k \in Slots |-> IdleTask]]
  /\ nConfirm = 0
  /\ nCartOps = 0
  /\ nFail = 0
  /\ priced = None
  /\ call = None
  /\ report = None
  /\ AppMount(None)
  /\ InventoryUnmounted

CartFrame ==
  UNCHANGED << variant, now, storeVars, products, storeSettings, isCheckingOut,
               receiptSale, isLoading, productCache, settingsCache, tasks,
               countVars, priced, report, appVars, invVars >>

\* a click on a product card: addToCart(product)
CallAdd(p) ==
  /\ call = None
  /\ call' = Some([op |-> "add", id |-> p, delta |-> 0, before |-> cart[CartSession]])
  /\ cart' = [cart EXCEPT ![CartSession] = addToCart(@, products[CartSession][p])]
  /\ CartFrame

\* updateQuantity(id, delta) on a line of the cart
CallUpdateQuantity(id, delta) ==
  /\ call = None
  /\ HasLine(cart[CartSession], id)
  /\ call' = Some([op |-> "setQuantity", id |-> id, delta |-> delta,
                   before |-> cart[CartSession]])
  /\ cart' = [cart EXCEPT ![CartSession] =
                updateQuantity(@, products[CartSession], id, delta)]
  /\ CartFrame

\* removeFromCart(id) on a line of the cart
CallRemove(id) ==
  /\ call = None
  /\ HasLine(cart[CartSession], id)
  /\ call' = Some([op |-> "remove", id |-> id, delta |-> 0, before |-> cart[CartSession]])
  /\ cart' = [cart EXCEPT ![CartSession] = removeFromCart(@, id)]
  /\ CartFrame

CartNext ==
  \/ \E p \in ProductIds : CallAdd(p)
  \/ \E p \in ProductIds, d \in (0 - MaxDelta) .. MaxDelta : CallUpdateQuantity(p, d)
  \/ \E p \in ProductIds : CallRemove(p)

SpecCart == CartInit /\ [][CartNext]_vars

\* ------------------------------------ the products of the store, cached
(* SpecCache is one client of the document store calling db.products: the  *)
(* reads of getAll and the four writes, in any order, a getAll being in    *)
(* flight from its call to its return.  A write is one step: the store     *)
(* applies it and the awaiting call sets productCache to null.  `call`     *)
(* is the last call that has returned: a getAll with what it returned, or  *)
(* a write; while it is a getAll the store is as it was at its return.     *)
CacheSession == "s1"

\* the cost price an edit of a product sets
EditedCost(product) == INITIAL_PRODUCTS[product.id].costPrice + 1000

\* what a getAll that goes to the store returns for the collection cat
Shown(cat) == IF cat = EmptyCatalog THEN INITIAL_PRODUCTS ELSE cat

CacheInit ==
  /\ variant = "fs"
  /\ now = 1
  /\ dbProducts = INITIAL_PRODUCTS
  /\ dbSales = << >>
  /\ dbLogs = << >>
  /\ dbSettings = None
  /\ products = [s \in Sessions |-> EmptyCatalog]
  /\ storeSettings = [s \in Sessions |-> None]
  /\ cart = [s \in Sessions |-> << >>]
  /\ isCheckingOut = [s \in Sessions |-> FALSE]
  /\ receiptSale = [s \in Sessions |-> None]
  /\ isLoading = [s \in Sessions |-> FALSE]
  /\ productCache = [s \in Sessions |-> None]
  /\ settingsCache = [s \in Sessions |-> None]
  /\ tasks = [s \in Sessions |-> [k \in Slots |-> IdleTask]]
  /\ nConfirm = 0
  /\ nCartOps = 0
  /\ nFail = 0
  /\ priced = None
  /\ call = None
  /\ report = None
  /\ AppMount(None)
  /\ InventoryUnmounted

CacheFrame ==
  UNCHANGED << variant, now, dbSales, dbLogs, dbSettings, posVars, settingsCache,
               nConfirm, nCartOps, priced, report, appVars, invVars >>

\* getAll with a cache: if (productCache) return productCache
GetAllCached(s) ==
  /\ productCache[s] # None
  /\ call' = Some([op |-> "getAll", src |-> "cache",
                   result |-> productCache[s][1]])
  /\ UNCHANGED << dbProducts, productCache, tasks, nFail >>
  /\ CacheFrame

\* getAll without a cache: getDocs is called
GetAllCall(s) ==
  /\ productCache[s] = None
  /\ HasFreeSlot(s)
  /\ tasks' = [tasks EXCEPT ![s][FreeSlot(s)] =
                 [IdleTask EXCEPT !.kind = "getAll", !.pc = "fetch",
                                  !.srcP = "pending"]]
  /\ UNCHANGED << dbProducts, productCache, call, nFail >>
  /\ CacheFrame

\* the store answers getDocs with the collection as it is, or rejects
GetAllRead(s, k) ==
  LET t == tasks[s][k] IN
  /\ t.kind = "getAll" /\ t.pc = "fetch"
  /\ \E ok \in Outcomes :
       /\ nFail' = IF ok THEN nFail ELSE nFail + 1
       /\ tasks' = [tasks EXCEPT ![s][k] =
            [t EXCEPT !.pc = "resolve",
                      !.srcP = IF ok THEN "net" ELSE "fail",
                      !.snapP = IF ok THEN Some(Shown(dbProducts)) ELSE None]]
  /\ UNCHANGED << dbProducts, productCache, call >>
  /\ CacheFrame

\* the answer arrives: productCache = products; return products, or the
\* catch branch returns productCache || INITIAL_PRODUCTS
GetAllReturn(s, k) ==
  LET t == tasks[s][k] IN
  /\ t.kind = "getAll" /\ t.pc = "resolve"
  /\ productCache' = IF t.srcP = "net" THEN [productCache EXCEPT ![s] = t.snapP]
                     ELSE productCache
  /\ call' = Some([op |-> "getAll", src |-> t.srcP,
                   result |-> GetAllResult(s, t)])
  /\ tasks' = [tasks EXCEPT ![s][k] = IdleTask]
  /\ UNCHANGED << dbProducts, nFail >>
  /\ CacheFrame

\* db.products.add(product): await setDoc(...); productCache = null
ProductsAdd(s, p) ==
  /\ p \notin DOMAIN dbProducts
  /\ \E ok \in Outcomes :
       /\ nFail' = IF ok THEN nFail ELSE nFail + 1
       /\ IF ok
          THEN /\ dbProducts' = [q \in DOMAIN dbProducts \cup {p} |->
                                   IF q = p THEN INITIAL_PRODUCTS[p] ELSE dbProducts[q]]
               /\ productCache' = [productCache EXCEPT ![s] = None]
          ELSE UNCHANGED << dbProducts, productCache >>
  /\ call' = Some([op |-> "add", id |-> p])
  /\ UNCHANGED tasks
  /\ CacheFrame

\* db.products.update(product): await updateDoc(...); productCache = null
ProductsUpdate(s, p) ==
  /\ p \in DOMAIN dbProducts
  /\ dbProducts[p].costPrice # EditedCost(dbProducts[p])
  /\ \E ok \in Outcomes :
       /\ nFail' = IF ok THEN nFail ELSE nFail + 1
       /\ IF ok
          THEN /\ dbProducts' = [dbProducts EXCEPT ![p].costPrice = EditedCost(dbProducts[p])]
               /\ productCache' = [productCache EXCEPT ![s] = None]
          ELSE UNCHANGED << dbProducts, productCache >>
  /\ call' = Some([op |-> "update", id |-> p])
  /\ UNCHANGED tasks
  /\ CacheFrame

\* db.products.delete(id): await deleteDoc(...); productCache = null
ProductsDelete(s, p) ==
  /\ p \in DOMAIN dbProducts
  /\ \E ok \in Outcomes :
       /\ nFail' = IF ok THEN nFail ELSE nFail + 1
       /\ IF ok
          THEN /\ dbProducts' = [q \in DOMAIN dbProducts \ {p} |-> dbProducts[q]]
               /\ productCache' = [productCache EXCEPT ![s] = None]
          ELSE UNCHANGED << dbProducts, productCache >>
  /\ call' = Some([op |-> "delete", id |-> p])
  /\ UNCHANGED tasks
  /\ CacheFrame

\* db.products.reduceStock(id, 1): await updateDoc(...); productCache = null
ProductsReduceStock(s, p) ==
  /\ p \in DOMAIN dbProducts
  /\ dbProducts[p].stock >= 1
  /\ \E ok \in Outcomes :
       /\ nFail' = IF ok THEN nFail ELSE nFail + 1
       /\ IF ok
          THEN /\ dbProducts' = reduceStock(dbProducts, p, 1)
               /\ productCache' = [productCache EXCEPT ![s] = None]
          ELSE UNCHANGED << dbProducts, productCache >>
  /\ call' = Some([op |-> "reduceStock", id |-> p])
  /\ UNCHANGED tasks
  /\ CacheFrame

CacheNext ==
  \/ GetAllCached(CacheSession)
  \/ GetAllCall(CacheSession)
  \/ \E k \in Slots : GetAllRead(CacheSession, k)
  \/ \E k \in Slots : GetAllReturn(CacheSession, k)
  \/ \E p \in ProductIds : ProductsAdd(CacheSession, p)
  \/ \E p \in ProductIds : ProductsUpdate(CacheSession, p)
  \/ \E p \in ProductIds : ProductsDelete(CacheSession, p)
  \/ \E p \in ProductIds : ProductsReduceStock(CacheSession, p)

SpecCache == CacheInit /\ [][CacheNext]_vars

\* ------------------------------------------- the reads of the store
(* SpecReads is one client of the document store calling the three reads   *)
(* products.getAll, sales.getAll and settings.get in any order and         *)
(* overlapping, over a store that holds any of a few collections; the      *)
(* store may reject a read.  `call` is the last read that has returned,    *)
(* with where its result came from (src) and the result.  One more read    *)
(* than MaxInFlight may be in flight, so that a getAll can fill the cache  *)
(* while another getAll is awaiting its answer.                            *)
ReadSlots == 1 .. (MaxInFlight + 1)
ReadKinds == {"getAll", "sales.getAll", "settings.get"}

\* a sale of one line of p1 at the default rate, made at time t
SampleSale(t) ==
  LET c == << CartLine(INITIAL_PRODUCTS["p1"]) >>
  IN [id |-> t, cashierId |-> "s1", items |-> SaleItems(c),
      subtotal |-> cartTotalsLs(c).subtotal, tax |-> cartTotalsLs(c).tax,
      total |-> cartTotalsLs(c).total]

RECURSIVE ByDateDesc(_)
\* query(collection, orderBy('date', 'desc')): the latest first
ByDateDesc(coll) ==
  IF coll = << >> THEN << >>
  ELSE LET m == CHOOSE i \in 1 .. Len(coll) :
                  \A j \in 1 .. Len(coll) : coll[j].id <= coll[i].id
       IN << coll[m] >> \o
          ByDateDesc(SelectSeq(coll, LAMBDA x : x.id # coll[m].id))

ReadsInit ==
  /\ variant = "fs"
  /\ now = 1
  /\ dbProducts \in {INITIAL_PRODUCTS, EmptyCatalog,
                     [INITIAL_PRODUCTS EXCEPT
                        !["p1"].costPrice = EditedCost(INITIAL_PRODUCTS["p1"])]}
  /\ dbSales \in {<< >>, << SampleSale(1) >>, << SampleSale(1), SampleSale(2) >>}
  /\ dbLogs = << >>
  /\ dbSettings \in {None} \cup {Some(r) : r \in TaxRates}
  /\ products = [s \in Sessions |-> EmptyCatalog]
  /\ storeSettings = [s \in Sessions |-> None]
  /\ cart = [s \in Sessions |-> << >>]
  /\ isCheckingOut = [s \in Sessions |-> FALSE]
  /\ receiptSale = [s \in Sessions |-> None]
  /\ isLoading = [s \in Sessions |-> FALSE]
  /\ productCache = [s \in Sessions |-> None]
  /\ settingsCache = [s \in Sessions |-> None]
  /\ tasks = [s \in Sessions |-> [k \in ReadSlots |-> IdleTask]]
  /\ nConfirm = 0
  /\ nCartOps = 0
  /\ nFail = 0
  /\ priced = None
  /\ call = None
  /\ report = None
  /\ AppMount(None)
  /\ InventoryUnmounted

ReadsFrame ==
  UNCHANGED << variant, now, storeVars, posVars, nConfirm, nCartOps, priced,
               report, appVars, invVars >>

\* settings.get with a cache: if (settingsCache) return settingsCache
SettingsGetCached(s) ==
  /\ settingsCache[s] # None
  /\ call' = Some([op |-> "settings.get", src |-> "cache",
                   result |-> settingsCache[s][1]])
  /\ UNCHANGED << productCache, settingsCache, tasks, nFail >>
  /\ ReadsFrame

\* a read without a cache (sales.getAll has none) goes to the store
ReadCall(s, kind) ==
  /\ kind = "getAll" => productCache[s] = None
  /\ kind = "settings.get" => settingsCache[s] = None
  /\ \E k \in ReadSlots :
       /\ Finished(tasks[s][k])
       /\ \A j \in ReadSlots : Finished(tasks[s][j]) => k <= j
       /\ tasks' = [tasks EXCEPT ![s][k] =
                      [IdleTask EXCEPT !.kind = kind, !.pc = "fetch",
                                       !.srcP = "pending"]]
  /\ UNCHANGED << productCache, settingsCache, call, nFail >>
  /\ ReadsFrame

\* the store answers the getDocs of sales.getAll (snapP holds the answer)
SalesRead(s, k) ==
  LET t == tasks[s][k] IN
  /\ t.kind = "sales.getAll" /\ t.pc = "fetch"
  /\ \E ok \in Outcomes :
       /\ nFail' = IF ok THEN nFail ELSE nFail + 1
       /\ tasks' = [tasks EXCEPT ![s][k] =
            [t EXCEPT !.pc = "resolve",
                      !.srcP = IF ok THEN "net" ELSE "fail",
                      !.snapP = IF ok THEN Some(ByDateDesc(dbSales)) ELSE None]]
  /\ UNCHANGED << productCache, settingsCache, call >>
  /\ ReadsFrame

\* what sales.getAll returns: the documents, or [] in the catch branch
SalesReturn(s, k) ==
  LET t == tasks[s][k] IN
  /\ t.kind = "sales.getAll" /\ t.pc = "resolve"
  /\ call' = Some([op |-> "sales.getAll", src |-> t.srcP, 
                   result |-> IF t.srcP = "fail" THEN << >> ELSE t.snapP[1]])
  /\ tasks' = [tasks EXCEPT ![s][k] = IdleTask]
  /\ UNCHANGED << productCache, settingsCache, nFail >>
  /\ ReadsFrame

\* the store answers the getDoc of settings.get (snapS holds the document)
SettingsRead(s, k) ==
  LET t == tasks[s][k] IN
  /\ t.kind = "settings.get" /\ t.pc = "fetch"
  /\ \E ok \in Outcomes :
       /\ nFail' = IF ok THEN nFail ELSE nFail + 1
       /\ tasks' = [tasks EXCEPT ![s][k] =
            [t EXCEPT !.pc = "resolve",
                      !.srcP = IF ~ok THEN "fail"
                               ELSE IF dbSettings # None THEN "net" ELSE "default",
                      !.snapS = IF ok THEN dbSettings ELSE None]]
  /\ UNCHANGED << productCache, settingsCache, call >>
  /\ ReadsFrame

\* what settings.get returns: the document, or DEFAULT_SETTINGS when there
\* is none and in the catch branch
SettingsReturn(s, k) ==
  LET t == tasks[s][k] IN
  /\ t.kind = "settings.get" /\ t.pc = "resolve"
  /\ settingsCache' = IF t.srcP = "net" THEN [settingsCache EXCEPT ![s] = t.snapS]
                      ELSE settingsCache
  /\ call' = Some([op |-> "settings.get", src |-> t.srcP, 
                   result |-> IF t.srcP = "net" THEN t.snapS[1] ELSE DEFAULT_TAX_RATE])
  /\ tasks' = [tasks EXCEPT ![s][k] = IdleTask]
  /\ UNCHANGED << productCache, nFail >>
  /\ ReadsFrame

ReadsNext ==
  \/ GetAllCached(CacheSession)
  \/ SettingsGetCached(CacheSession)
  \/ \E kind \in ReadKinds : ReadCall(CacheSession, kind)
  \/ \E k \in ReadSlots : GetAllRead(CacheSession, k)
  \/ \E k \in ReadSlots : GetAllReturn(CacheSession, k)
  \/ \E k \in ReadSlots : SalesRead(CacheSession, k)
  \/ \E k \in ReadSlots : SalesReturn(CacheSession, k)
  \/ \E k \in ReadSlots : SettingsRead(CacheSession, k)
  \/ \E k \in ReadSlots : SettingsReturn(CacheSession, k)

SpecReads == ReadsInit /\ [][ReadsNext]_vars

\* ------------------------------------------------- the report (pure)
(* Reports.pnlData.  The money of a sale (subtotal, tax, total) and the    *)
(* amount of an expense are in thousandths of a unit, prices and cost      *)
(* prices in units, so the cost of goods is brought to thousandths.  A     *)
(* margin, (profit / revenue) * 100, is the exact fraction num / den in    *)
(* lowest terms.  The date of a sale is its identifier (both are read from *)
(* the clock when the sale is built).                                      *)
RECURSIVE SumSeq(_)
\* reduce((sum, x) => sum + x, 0)
SumSeq(q) == IF q = << >> THEN 0 ELSE q[1] + SumSeq(Tail(q))

RECURSIVE GCD(_, _)
GCD(a, b) == IF b = 0 THEN a ELSE GCD(b, a % b)

ZeroPercent == [num |-> 0, den |-> 1]

\* d >= dateRange.start && d <= dateRange.end
InRange(d, range) == d >= range[1] /\ d <= range[2]

\* filteredSales.reduce((sum, s) => sum + s.total, 0)
revenue(filteredSales) ==
  SumSeq([i \in 1 .. Len(filteredSales) |-> filteredSales[i].total])

\* a bug of the unit cost: the current cost price of the product is used
\* even when the line has a stored cost
UnitCost_Current(item, prods) ==
  IF item.productId \in DOMAIN prods THEN prods[item.productId].costPrice ELSE 0

\* item.costPrice ?? (productCostMap.get(item.productId) || 0)
UnitCost(item, prods) ==
  IF "costPrice" \in DOMAIN item THEN item.costPrice
  ELSE IF item.productId \in DOMAIN prods THEN prods[item.productId].costPrice
  ELSE 0

\* sale.items.reduce((isum, item) => isum + cost * item.quantity, 0)
saleCost(sale, prods) ==
  SumSeq([j \in 1 .. Len(sale.items) |->
            UnitCost(sale.items[j], prods) * sale.items[j].quantity])

\* filteredSales.reduce((sum, sale) => sum + saleCost, 0), in thousandths
cogs(filteredSales, prods) ==
  SumSeq([i \in 1 .. Len(filteredSales) |-> saleCost(filteredSales[i], prods)]) * 1000

grossProfit(rev, cost) == rev - cost

\* revenue > 0 ? (profit / revenue) * 100 : 0
margin(profit, rev) ==
  IF rev > 0
  THEN LET g == GCD(IF profit < 0 THEN 0 - profit ELSE profit, rev)
           n == profit \div g
           d == rev \div g
           h == GCD(100, d)
       IN [num |-> n * (100 \div h), den |-> d \div h]
  ELSE ZeroPercent

\* filteredExpenses.reduce((sum, e) => sum + e.amount, 0)
totalExpenses(filteredExpenses) ==
  SumSeq([i \in 1 .. Len(filteredExpenses) |-> filteredExpenses[i].amount])

\* a bug of the net profit: the expenses are added
netProfit_AddsExpenses(gross, exp) == gross + exp

netProfit(gross, exp) == gross - exp

\* Reports.pnlData
pnlData(sales, expenses, prods, range) ==
  LET filteredSales == SelectSeq(sales, LAMBDA x : InRange(x.id, range))
      filteredExpenses == SelectSeq(expenses, LAMBDA e : InRange(e.date, range))
      rev == revenue(filteredSales)
      cost == cogs(filteredSales, prods)
      gross == grossProfit(rev, cost)
      exp == totalExpenses(filteredExpenses)
      net == netProfit(gross, exp)
  IN [revenue |-> rev, cogs |-> cost, grossProfit |-> gross,
      grossMargin |-> margin(gross, rev), totalExpenses |-> exp,
      netProfit |-> net, netMargin |-> margin(net, rev),
      filteredSales |-> filteredSales, filteredExpenses |-> filteredExpenses]

\* the sales the report is tried on: one made at a rate of 25 percent whose
\* stored cost differs from the cost price of today, one without stored
\* costs (as the localStorage variant writes them), one at the default rate
ReportSales ==
  { [id |-> 2, cashierId |-> "s1", subtotal |-> 80000000, tax |-> 20000000,
     total |-> 100000000,
     items |-> << [productId |-> "p1", quantity |-> 2, price |-> 40000,
                   costPrice |-> 30000, total |-> 80000] >>],
    [id |-> 1, cashierId |-> "s2", subtotal |-> 18000000, tax |-> 2970000,
     total |-> 20970000,
     items |-> << [productId |-> "p2", quantity |-> 1, price |-> 18000,
                   total |-> 18000] >>],
    [id |-> 3, cashierId |-> "s1", subtotal |-> 45000000, tax |-> 7425000,
     total |-> 52425000,
     items |-> << [productId |-> "p1", quantity |-> 1, price |-> 45000,
                   costPrice |-> 35000, total |-> 45000] >>] }

ReportInit ==
  /\ variant = "fs"
  /\ now = 1
  /\ dbProducts = INITIAL_PRODUCTS
  /\ dbSales = << >>
  /\ dbLogs = << >>
  /\ dbSettings = None
  /\ products = [s \in Sessions |-> EmptyCatalog]
  /\ storeSettings = [s \in Sessions |-> None]
  /\ cart = [s \in Sessions |-> << >>]
  /\ isCheckingOut = [s \in Sessions |-> FALSE]
  /\ receiptSale = [s \in Sessions |-> None]
  /\ isLoading = [s \in Sessions |-> FALSE]
  /\ productCache = [s \in Sessions |-> None]
  /\ settingsCache = [s \in Sessions |-> None]
  /\ tasks = [s \in Sessions |-> [k \in Slots |-> IdleTask]]
  /\ nConfirm = 0
  /\ nCartOps = 0
  /\ nFail = 0
  /\ priced = None
  /\ call = None
  /\ \E sl \in {<< >>} \cup {<< x >> : x \in ReportSales}
                \cup {q \in {<< x, y >> : x \in ReportSales, y \in ReportSales} :
                        q[1].id # q[2].id},
        el \in { << >>,
                 << [date |-> 2, amount |-> 15000000] >>,
                 << [date |-> 2, amount |-> 15000000],
                    [date |-> 1, amount |-> 50000000] >> },
        \* the catalog as seeded, with an edited cost price, and with p2 deleted
        cat \in { INITIAL_PRODUCTS,
                  [INITIAL_PRODUCTS EXCEPT
                     !["p1"].costPrice = EditedCost(INITIAL_PRODUCTS["p1"])],
                  [p \in {"p1"} |-> INITIAL_PRODUCTS[p]] },
        \* dateRange of the period selected: everything, or the later part
        r \in { << 1, 3 >>, << 2, 3 >> } :
       report = Some([sales |-> sl, expenses |-> el, products |-> cat,
                      range |-> r, pnl |-> None])
  /\ AppMount(None)
  /\ InventoryUnmounted

\* the render evaluates pnlData
ComputePnl ==
  /\ report # None
  /\ report[1].pnl = None
  /\ report' = Some([report[1] EXCEPT !.pnl =
                 Some(pnlData(report[1].sales, report[1].expenses,
                              report[1].products, report[1].range))])
  /\ UNCHANGED << variant, now, storeVars, posVars, productCache, settingsCache,
                  tasks, countVars, priced, call, appVars, invVars >>

ReportNext == ComputePnl

SpecReport == ReportInit /\ [][ReportNext]_vars

\* ------------------------------------------------ the App and its Layout
(* SpecApp is the App of the document store variant: the auth-state        *)
(* listener, the Login page, the navigation of the Layout and the logout.  *)
(* A user is [id, role].  The identity provider has two accounts, each     *)
(* with its document in the users collection; the sign-in state of the     *)
(* provider changes by the Login page, by signOut, and from outside (the   *)
(* session ends, or another tab signs in), and every change calls the      *)
(* listener.  A sign-in that the provider refuses changes no state of the  *)
(* App and is left out.                                                    *)
DemoIds == {"demo-admin", "demo-cashier"}
Accounts == {"um", "uc"}

\* Login.handleLogin: the two demo users
DemoUser(d) ==
  [id |-> d, role |-> IF d = "demo-admin" THEN "admin" ELSE "cashier"]

\* the document users/uid of an account
UserDoc(uid) ==
  [id |-> uid, role |-> IF uid = "um" THEN "manager" ELSE "cashier"]

\* db.users.getUserProfile: the document, or in the catch branch a cashier
getUserProfile(uid, ok) ==
  IF ok THEN UserDoc(uid) ELSE [id |-> uid, role |-> "cashier"]

\* prev?.id.startsWith('demo-') ? prev : null
KeepDemo(prev) ==
  IF prev # None /\ prev[1].id \in DemoIds THEN prev ELSE None

\* a bug of renderView: the settings case does not look at the role
renderView_SettingsOpen(view, user) ==
  CASE view = "dashboard" -> "Dashboard"
    [] view = "pos" -> "POS"
    [] view = "inventory" -> "Inventory"
    [] view = "reports" ->
         IF user.role = "cashier" THEN "AccessDenied" ELSE "Reports"
    [] view = "customers" -> "Customers"
    [] view = "settings" -> "Settings"
    [] OTHER -> "Dashboard"

\* App.renderView: what the switch returns
renderView(view, user) ==
  CASE view = "dashboard" -> "Dashboard"
    [] view = "pos" -> "POS"
    [] view = "inventory" -> "Inventory"
    [] view = "reports" ->
         IF user.role = "cashier" THEN "AccessDenied" ELSE "Reports"
    [] view = "customers" -> "Customers"
    [] view = "settings" ->
         IF user.role = "cashier" THEN "AccessDenied" ELSE "Settings"
    [] OTHER -> "Dashboard"

\* what the App renders
Screen ==
  IF appLoading THEN "Loader"
  ELSE IF currentUser = None THEN "Login"
  ELSE renderView(currentView, currentUser[1])

\* Layout.navItems: allNavItems.filter(item => item.roles.includes(role))
navItems(role) ==
  LET allNavItems ==
        << [id |-> "dashboard", roles |-> {"admin", "manager", "cashier"}],
           [id |-> "pos", roles |-> {"admin", "manager", "cashier"}],
           [id |-> "inventory", roles |-> {"admin", "manager", "cashier"}],
           [id |-> "reports", roles |-> {"admin", "manager"}],
           [id |-> "customers", roles |-> {"admin", "manager", "cashier"}],
           [id |-> "settings", roles |-> {"admin", "manager"}] >>
  IN SelectSeq(allNavItems, LAMBDA item : role \in item.roles)

\* the Layout is rendered: its navigation and its Logout can be clicked
LayoutShown == ~appLoading /\ currentUser # None

\* the Login page is rendered and its button is enabled
LoginEnabled == ~appLoading /\ currentUser = None /\ ~loginBusy

\* Login.isLoading after the user becomes u: a Login that is mounted or
\* unmounted by the change starts with isLoading false
LoginBusyAfter(u) ==
  IF (u = None) = (currentUser = None) THEN loginBusy ELSE FALSE

\* the entry Login.handleLogin writes to the log
LoginLog(uid, time) ==
  [id |-> time, action |-> "Login", saleId |-> 0, userId |-> uid]

AppInit ==
  /\ variant = "fs"
  /\ now = 1
  /\ dbProducts = INITIAL_PRODUCTS
  /\ dbSales = << >>
  /\ dbLogs = << >>
  /\ dbSettings = None
  /\ products = [s \in Sessions |-> EmptyCatalog]
  /\ storeSettings = [s \in Sessions |-> None]
  /\ cart = [s \in Sessions |-> << >>]
  /\ isCheckingOut = [s \in Sessions |-> FALSE]
  /\ receiptSale = [s \in Sessions |-> None]
  /\ isLoading = [s \in Sessions |-> FALSE]
  /\ productCache = [s \in Sessions |-> None]
  /\ settingsCache = [s \in Sessions |-> None]
  /\ tasks = [s \in Sessions |-> [k \in Slots |-> IdleTask]]
  /\ nConfirm = 0
  /\ nCartOps = 0
  /\ nFail = 0
  /\ priced = None
  /\ call = None
  /\ report = None
  /\ \E session \in {None} \cup {Some(a) : a \in Accounts} : AppMount(session)
  /\ InventoryUnmounted

AppFrame ==
  UNCHANGED << variant, dbProducts, dbSales, dbSettings, posVars, productCache,
               settingsCache, tasks, nConfirm, nCartOps, priced, call, report,
               invVars >>

\* the listener is called with the sign-in state `session`, up to its await
\* of getUserProfile (a state with a user) or to its end (a state without)
ListenerCalled(session) ==
  IF session # None
  THEN /\ listeners' = listeners \cup {session[1]}
       /\ UNCHANGED << currentUser, appLoading, loginBusy >>
  ELSE /\ currentUser' = KeepDemo(currentUser)
       /\ appLoading' = FALSE
       /\ loginBusy' = LoginBusyAfter(KeepDemo(currentUser))
       /\ UNCHANGED listeners

\* onAuthStateChanged: the first call, with the session the provider kept
AuthRestored ==
  /\ ~listening
  /\ listening' = TRUE
  /\ ListenerCalled(authUser)
  /\ UNCHANGED << now, dbLogs, nFail, currentView, authUser, loginTasks,
                  signingOut, signedOut, nAppOps >>
  /\ AppFrame

\* the listener: getUserProfile has returned; setCurrentUser(userProfile)
\* and, in finally, setIsLoading(false)
ProfileArrives(uid) ==
  /\ uid \in listeners
  /\ listeners' = listeners \ {uid}
  /\ \E ok \in Outcomes :
       /\ nFail' = IF ok THEN nFail ELSE nFail + 1
       /\ currentUser' = Some(getUserProfile(uid, ok))
  /\ appLoading' = FALSE
  /\ loginBusy' = FALSE
  /\ UNCHANGED << now, dbLogs, currentView, authUser, listening, loginTasks,
                  signingOut, signedOut, nAppOps >>
  /\ AppFrame

\* Login.handleLogin with the credentials of a demo user: setTimeout(.., 800)
DemoLogin(d) ==
  /\ LoginEnabled
  /\ nAppOps < MaxAppOps
  /\ nAppOps' = nAppOps + 1
  /\ loginBusy' = TRUE
  /\ loginTasks' = loginTasks \cup {[kind |-> "demo", id |-> d]}
  /\ UNCHANGED << now, dbLogs, nFail, currentUser, currentView, appLoading,
                  authUser, listening, listeners, signingOut, signedOut >>
  /\ AppFrame

\* the timer of a demo login: db.logs.add(...) (not awaited), onLogin(demoUser),
\* setIsLoading(false)
DemoLoginTimer(d) ==
  /\ [kind |-> "demo", id |-> d] \in loginTasks
  /\ loginTasks' = loginTasks \ {[kind |-> "demo", id |-> d]}
  /\ now' \in Clock
  /\ \E ok \in Outcomes :
       /\ nFail' = IF ok THEN nFail ELSE nFail + 1
       /\ dbLogs' = IF ok THEN SetDoc(dbLogs, LoginLog(d, now')) ELSE dbLogs
  /\ currentUser' = Some(DemoUser(d))
  /\ loginBusy' = FALSE
  /\ UNCHANGED << currentView, appLoading, authUser, listening, listeners,
                  signingOut, signedOut, nAppOps >>
  /\ AppFrame

\* Login.handleLogin with the credentials of an account:
\* signInWithEmailAndPassword succeeds, the provider calls the listener, and
\* handleLogin goes on to db.logs.add
SignIn(uid) ==
  /\ LoginEnabled
  /\ nAppOps < MaxAppOps
  /\ nAppOps' = nAppOps + 1
  /\ authUser' = Some(uid)
  /\ listeners' = listeners \cup {uid}
  /\ loginBusy' = TRUE
  /\ loginTasks' = loginTasks \cup {[kind |-> "auth", id |-> uid]}
  /\ UNCHANGED << now, dbLogs, nFail, currentUser, currentView, appLoading,
                  listening, signingOut, signedOut >>
  /\ AppFrame

\* await db.logs.add(...) of handleLogin completes; when it rejects the
\* catch branch runs setIsLoading(false)
LoginLogged(uid) ==
  /\ [kind |-> "auth", id |-> uid] \in loginTasks
  /\ loginTasks' = loginTasks \ {[kind |-> "auth", id |-> uid]}
  /\ now' \in Clock
  /\ \E ok \in Outcomes :
       /\ nFail' = IF ok THEN nFail ELSE nFail + 1
       /\ dbLogs' = IF ok THEN SetDoc(dbLogs, LoginLog(uid, now')) ELSE dbLogs
       /\ loginBusy' = IF ok THEN loginBusy ELSE FALSE
  /\ UNCHANGED << currentUser, currentView, appLoading, authUser, listening,
                  listeners, signingOut, signedOut, nAppOps >>
  /\ AppFrame

\* Layout.handleNavClick on an entry of the navigation: onChangeView(id)
ChangeView(v) ==
  /\ LayoutShown
  /\ \E i \in 1 .. Len(navItems(currentUser[1].role)) :
       navItems(currentUser[1].role)[i].id = v
  /\ currentView' = v
  /\ UNCHANGED << now, dbLogs, nFail, currentUser, appLoading, authUser,
                  listening, listeners, loginTasks, loginBusy, signingOut,
                  signedOut, nAppOps >>
  /\ AppFrame

\* the Logout of the Layout: handleLogout calls authInstance.signOut()
LogoutClick ==
  /\ LayoutShown
  /\ nAppOps < MaxAppOps
  /\ nAppOps' = nAppOps + 1
  /\ signingOut' = signingOut + 1
  /\ UNCHANGED << now, dbLogs, nFail, currentUser, currentView, appLoading,
                  authUser, listening, listeners, loginTasks, loginBusy,
                  signedOut >>
  /\ AppFrame

\* signOut acts: the provider has no user any more and, when it had one,
\* calls the listener
SignOutActs ==
  /\ signingOut > 0
  /\ signingOut' = signingOut - 1
  /\ signedOut' = signedOut + 1
  /\ authUser' = None
  /\ IF authUser # None THEN ListenerCalled(None)
     ELSE UNCHANGED << currentUser, appLoading, loginBusy, listeners >>
  /\ UNCHANGED << now, dbLogs, nFail, currentView, listening, loginTasks, nAppOps >>
  /\ AppFrame

\* a bug of handleLogout: the catch branch only logs the error
SignOutThrows_KeepsUser ==
  /\ signingOut > 0
  /\ nFail < MaxFailures
  /\ nFail' = nFail + 1
  /\ signingOut' = signingOut - 1
  /\ UNCHANGED << now, dbLogs, currentUser, currentView, loginBusy, appLoading,
                  authUser, listening, listeners, loginTasks, signedOut, nAppOps >>
  /\ AppFrame

\* handleLogout, catch: signOut has thrown; setCurrentUser(null),
\* setCurrentView('dashboard')
SignOutThrows ==
  /\ signingOut > 0
  /\ nFail < MaxFailures
  /\ nFail' = nFail + 1
  /\ signingOut' = signingOut - 1
  /\ currentUser' = None
  /\ currentView' = "dashboard"
  /\ loginBusy' = LoginBusyAfter(None)
  /\ UNCHANGED << now, dbLogs, appLoading, authUser, listening, listeners,
                  loginTasks, signedOut, nAppOps >>
  /\ AppFrame

\* handleLogout, after the await: setCurrentUser(null),
\* setCurrentView('dashboard')
LogoutDone ==
  /\ signedOut > 0
  /\ signedOut' = signedOut - 1
  /\ currentUser' = None
  /\ currentView' = "dashboard"
  /\ loginBusy' = LoginBusyAfter(None)
  /\ UNCHANGED << now, dbLogs, nFail, appLoading, authUser, listening,
                  listeners, loginTasks, signingOut, nAppOps >>
  /\ AppFrame

\* the sign-in state changes from outside: another tab signs in
ProviderSignIn(uid) ==
  /\ listening
  /\ nAppOps < MaxAppOps
  /\ nAppOps' = nAppOps + 1
  /\ authUser # Some(uid)
  /\ authUser' = Some(uid)
  /\ ListenerCalled(Some(uid))
  /\ UNCHANGED << now, dbLogs, nFail, currentView, listening, loginTasks,
                  signingOut, signedOut >>
  /\ AppFrame

\* the sign-in state changes from outside: the session ends
ProviderSignOut ==
  /\ listening
  /\ nAppOps < MaxAppOps
  /\ nAppOps' = nAppOps + 1
  /\ authUser # None
  /\ authUser' = None
  /\ ListenerCalled(None)
  /\ UNCHANGED << now, dbLogs, nFail, currentView, listening, loginTasks,
                  signingOut, signedOut >>
  /\ AppFrame

AppNext ==
  \/ AuthRestored
  \/ \E uid \in Accounts : ProfileArrives(uid)
  \/ \E d \in DemoIds : DemoLogin(d)
  \/ \E d \in DemoIds : DemoLoginTimer(d)
  \/ \E uid \in Accounts : SignIn(uid)
  \/ \E uid \in Accounts : LoginLogged(uid)
  \/ \E v \in {"dashboard", "pos", "inventory", "reports", "customers", "settings"} :
       ChangeView(v)
  \/ LogoutClick
  \/ SignOutActs
  \/ SignOutThrows
  \/ LogoutDone
  \/ \E uid \in Accounts : ProviderSignIn(uid)
  \/ ProviderSignOut

SpecApp == AppInit /\ [][AppNext]_vars

\* ------------------------------------------------------ the Inventory page
(* SpecInventory is the Inventory page over the store.  In the document    *)
(* store variant the page gets the user from the App, shows its buttons    *)
(* and dialogs by canEdit, and its handlers await the product write, the   *)
(* activity log write and fetchData in turn; in the localStorage variant   *)
(* the page has no user, no stock adjustment and no delete, and handleSave *)
(* is one synchronous step.  A product is [id, name, barcode, price,       *)
(* costPrice, stock, lowStockThreshold]; its category, supplier, image and *)
(* expiry date are not modelled (the localStorage form also rejects an     *)
(* expiry date that is not in the future), nor is the suppliers list that  *)
(* fetchData loads.  Outside the page a sale of another client decrements  *)
(* a stock, and the App may pass another user (its auth-state listener     *)
(* sets currentUser while the view stays).                                   *)
InvUsers == {DemoUser("demo-admin")} \cup {UserDoc(u) : u \in Accounts}

\* INITIAL_PRODUCTS with the fields of the product form
InventorySeed ==
  [p \in ProductIds |->
     [id |-> p,
      name |-> IF p = "p1" THEN "Jack Daniels 750ml" ELSE "Smirnoff Vodka 750ml",
      barcode |-> IF p = "p1" THEN "1001" ELSE "1002",
      price |-> INITIAL_PRODUCTS[p].price,
      costPrice |-> INITIAL_PRODUCTS[p].costPrice,
      stock |-> INITIAL_PRODUCTS[p].stock,
      lowStockThreshold |-> 5]]

\* const canEdit = role === ADMIN || role === MANAGER
canEdit(user) == user.role = "admin" \/ user.role = "manager"

\* the role test of the page: the localStorage page has none
MayEdit == variant = "ls" \/ canEdit(currentUser[1])

\* the form of handleOpenModal() for a new product
BlankForm ==
  [name |-> "", price |-> 0, costPrice |-> 0, stock |-> 0, barcode |-> "",
   lowStockThreshold |-> 5]

\* what is typed into the fields of the form
FieldInput(k) ==
  CASE k = "name" -> {" ", "Gin 750ml"}
    [] k = "barcode" -> {"1001", "2001"}
    [] k = "costPrice" -> {-1, 12000}
    [] k = "price" -> {-1, 12000}
    [] k = "stock" -> {-1, 5}
    [] k = "lowStockThreshold" -> {-1}

\* a bug of handleSave: a price that does not exceed the cost is accepted
Validate_NoPriceAboveCost(f) ==
  {k \in DOMAIN BlankForm :
     \/ k = "name" /\ f.name \in {"", " "}
     \/ k = "barcode" /\ f.barcode \in {"", " "}
     \/ k = "stock" /\ f.stock < 0
     \/ k = "lowStockThreshold" /\ f.lowStockThreshold < 0
     \/ k = "costPrice" /\ f.costPrice < 0
     \/ k = "price" /\ f.price < 0}

\* handleSave: the keys of newErrors; !text?.trim() holds of the texts "" and " "
Validate(f) ==
  {k \in DOMAIN BlankForm :
     \/ k = "name" /\ f.name \in {"", " "}
     \/ k = "barcode" /\ f.barcode \in {"", " "}
     \/ k = "stock" /\ f.stock < 0
     \/ k = "lowStockThreshold" /\ f.lowStockThreshold < 0
     \/ k = "costPrice" /\ f.costPrice < 0
     \/ k = "price" /\ (f.price < 0 \/ f.price <= f.costPrice)}

\* setDoc(doc(db, 'products', id), product) / products.push(product)
PutDoc(cat, product) ==
  [q \in DOMAIN cat \cup {product.id} |-> IF q = product.id THEN product ELSE cat[q]]

\* isSaving, isAdjusting, isDeleting: true from the start of the handler to
\* its end
Busy(kind) == invTasks[kind].pc # "idle"

\* the dialogs are rendered only with canEdit
FormShown == inventory.isModalOpen /\ MayEdit
AdjustShown_NoRoleCheck == inventory.adjustProduct # None
AdjustShown == inventory.adjustProduct # None /\ MayEdit
DeleteShown == inventory.productToDelete # None /\ MayEdit

\* the Add, Edit, Adjust and Delete buttons are rendered only with canEdit
\* and lie under a dialog that is shown
RowButtons == MayEdit /\ ~FormShown /\ ~AdjustShown /\ ~DeleteShown

\* the page as mounted (useState, useEffect): of the document store with
\* any of the users and fetchData under way, or of localStorage (which takes
\* no user) with the products read
InvInit ==
  /\ variant \in Variants
  /\ now = 1
  /\ dbProducts = InventorySeed
  /\ dbSales = << >>
  /\ dbLogs = << >>
  /\ dbSettings = None
  /\ products = [s \in Sessions |-> EmptyCatalog]
  /\ storeSettings = [s \in Sessions |-> None]
  /\ cart = [s \in Sessions |-> << >>]
  /\ isCheckingOut = [s \in Sessions |-> FALSE]
  /\ receiptSale = [s \in Sessions |-> None]
  /\ isLoading = [s \in Sessions |-> FALSE]
  /\ productCache = [s \in Sessions |-> None]
  /\ settingsCache = [s \in Sessions |-> None]
  /\ tasks = [s \in Sessions |-> [k \in Slots |-> IdleTask]]
  /\ nConfirm = 0
  /\ nCartOps = 0
  /\ nFail = 0
  /\ priced = None
  /\ call = None
  /\ report = None
  /\ currentUser \in IF variant = "fs" THEN {Some(u) : u \in InvUsers}
                                      ELSE {Some(UserDoc("um"))}
  /\ currentView = "inventory"
  /\ appLoading = FALSE
  /\ authUser = IF currentUser[1].id \in Accounts THEN Some(currentUser[1].id) ELSE None
  /\ listening = TRUE
  /\ listeners = {}
  /\ loginTasks = {}
  /\ loginBusy = FALSE
  /\ signingOut = 0
  /\ signedOut = 0
  /\ nAppOps = 0
  /\ inventory =
       [products |-> IF variant = "fs" THEN EmptyCatalog ELSE dbProducts,
        isModalOpen |-> FALSE, editingProduct |-> None, formData |-> EmptyCatalog,
        errors |-> {}, adjustProduct |-> None, adjustQty |-> 0,
        productToDelete |-> None]
  /\ invTasks = [k \in {"load", "save", "adjust", "delete"} |->
                   IF variant = "fs" /\ k = "load"
                   THEN [IdleHandler EXCEPT !.pc = "fetch"] ELSE IdleHandler]
  /\ nInvOps = 0

InvFrame ==
  UNCHANGED << variant, dbSales, dbSettings, posVars, settingsCache, tasks,
               nConfirm, nCartOps, priced, report, currentView, appLoading,
               authUser, listening, listeners, loginTasks, loginBusy,
               signingOut, signedOut, nAppOps >>

\* a click or a typed value that changes the state of the page only
PageOnly ==
  /\ nInvOps < MaxInvOps
  /\ nInvOps' = nInvOps + 1
  /\ UNCHANGED << now, dbProducts, dbLogs, productCache, nFail, call,
                  currentUser, invTasks >>
  /\ InvFrame

\* handleOpenModal(product) by an Edit button, handleOpenModal() by the Add
\* button
HandleOpenModal(e) ==
  /\ RowButtons
  /\ inventory' = [inventory EXCEPT !.errors = {}, !.editingProduct = e,
                                    !.formData = IF e # None THEN e[1] ELSE BlankForm,
                                    !.isModalOpen = TRUE]
  /\ PageOnly

\* onChange of the field k of the form, v typed: the stock is clamped
\* (num < 0 ? 0 : num), a price, cost or threshold is Number(value), a name
\* or barcode is the text
SetField(k, v) ==
  /\ FormShown
  /\ inventory.formData[k] # (IF k = "stock" THEN Max(0, v) ELSE v)
  /\ inventory' = [inventory EXCEPT !.formData[k] = IF k = "stock" THEN Max(0, v) ELSE v]
  /\ PageOnly

\* the X and Cancel buttons of the form: setIsModalOpen(false)
CloseModal ==
  /\ FormShown
  /\ inventory' = [inventory EXCEPT !.isModalOpen = FALSE]
  /\ PageOnly

\* handleSave of the document store, up to its first await: the form is
\* rejected with its errors, or the product write is issued
HandleSave ==
  LET f == inventory.formData
      e == inventory.editingProduct
  IN
  /\ variant = "fs"
  /\ FormShown /\ ~Busy("save")
  /\ canEdit(currentUser[1])
  /\ nInvOps < MaxInvOps
  /\ nInvOps' = nInvOps + 1
  /\ IF Validate(f) # {}
     THEN /\ inventory' = [inventory EXCEPT !.errors = Validate(f)]
          /\ UNCHANGED << now, invTasks >>
     ELSE /\ inventory' = inventory
          /\ IF e # None
             THEN /\ now' = now
                  /\ invTasks' = [invTasks EXCEPT !["save"] =
                       [pc |-> "write", op |-> "update",
                        product |-> Some((f @@ e[1])), editing |-> e,
                        by |-> currentUser]]
             ELSE /\ now' \in (now + 1) .. MaxTime
                  /\ invTasks' = [invTasks EXCEPT !["save"] =
                       [pc |-> "write", op |-> "add",
                        product |-> Some(([id |-> ToString(now')] @@ f)), editing |-> None,
                        by |-> currentUser]]
  /\ UNCHANGED << dbProducts, dbLogs, productCache, nFail, call, currentUser >>
  /\ InvFrame

\* handleSave of localStorage: the form is rejected with its errors, or the
\* product is written (update replaces the product found, add pushes), the
\* products are read again and the form is closed
HandleSaveLs ==
  LET f == inventory.formData
      e == inventory.editingProduct
  IN
  /\ variant = "ls"
  /\ FormShown
  /\ nInvOps < MaxInvOps
  /\ nInvOps' = nInvOps + 1
  /\ IF Validate(f) # {}
     THEN /\ inventory' = [inventory EXCEPT !.errors = Validate(f)]
          /\ UNCHANGED << now, dbProducts >>
     ELSE /\ IF e # None
             THEN /\ now' = now
                  /\ dbProducts' = IF e[1].id \in DOMAIN dbProducts
                                   THEN [dbProducts EXCEPT ![e[1].id] = f @@ e[1]]
                                   ELSE dbProducts
             ELSE /\ now' \in (now + 1) .. MaxTime
                  /\ dbProducts' = PutDoc(dbProducts, ([id |-> ToString(now')] @@ f))
          /\ inventory' = [inventory EXCEPT !.products = dbProducts',
                                            !.isModalOpen = FALSE]
  /\ UNCHANGED << dbLogs, productCache, nFail, call, currentUser, invTasks >>
  /\ InvFrame

\* handleOpenAdjust(product)
HandleOpenAdjust(p) ==
  /\ variant = "fs"
  /\ RowButtons
  /\ p \in DOMAIN inventory.products
  /\ inventory' = [inventory EXCEPT !.adjustProduct = Some(inventory.products[p]),
                                    !.adjustQty = inventory.products[p].stock]
  /\ PageOnly

\* the - and + buttons and the number field of the adjustment dialog
SetAdjustQty(q) ==
  /\ AdjustShown
  /\ q \in {Max(0, inventory.adjustQty - 1), inventory.adjustQty + 1, 0}
  /\ q <= MaxAdjustQty
  /\ q # inventory.adjustQty
  /\ inventory' = [inventory EXCEPT !.adjustQty = q]
  /\ PageOnly

\* the Cancel button of the adjustment dialog: setAdjustProduct(null)
CancelAdjust ==
  /\ AdjustShown
  /\ inventory' = [inventory EXCEPT !.adjustProduct = None]
  /\ PageOnly

\* handleSaveAdjust, up to its first await
HandleSaveAdjust ==
  LET a == inventory.adjustProduct
      q == inventory.adjustQty
  IN
  /\ AdjustShown /\ ~Busy("adjust")
  /\ a # None
  /\ invTasks' = [invTasks EXCEPT !["adjust"] =
       [pc |-> "write", op |-> "update",
        product |-> Some([a[1] EXCEPT !.stock = IF q < 0 THEN 0 ELSE q]),
        editing |-> a, by |-> currentUser]]
  /\ nInvOps < MaxInvOps
  /\ nInvOps' = nInvOps + 1
  /\ UNCHANGED << now, dbProducts, dbLogs, productCache, nFail, call,
                  currentUser, inventory >>
  /\ InvFrame

\* the Delete button of a row: setProductToDelete(product)
AskDelete(p) ==
  /\ variant = "fs"
  /\ RowButtons
  /\ p \in DOMAIN inventory.products
  /\ inventory' = [inventory EXCEPT !.productToDelete = Some(inventory.products[p])]
  /\ PageOnly

\* the Cancel button of the delete dialog: setProductToDelete(null)
CancelDelete ==
  /\ DeleteShown
  /\ inventory' = [inventory EXCEPT !.productToDelete = None]
  /\ PageOnly

\* confirmDelete, up to its first await
ConfirmDelete ==
  /\ DeleteShown /\ ~Busy("delete")
  /\ canEdit(currentUser[1]) /\ inventory.productToDelete # None
  /\ invTasks' = [invTasks EXCEPT !["delete"] =
       [pc |-> "write", op |-> "delete", product |-> inventory.productToDelete,
        editing |-> None, by |-> currentUser]]
  /\ nInvOps < MaxInvOps
  /\ nInvOps' = nInvOps + 1
  /\ UNCHANGED << now, dbProducts, dbLogs, productCache, nFail, call,
                  currentUser, inventory >>
  /\ InvFrame

\* the product write of a handler completes, or is rejected and the catch
\* branch of the handler ends it: updateDoc replaces the fields given (and
\* rejects when the document does not exist), setDoc puts the document,
\* deleteDoc removes it; the awaiting call sets productCache to null
HandlerWrite(kind) ==
  LET t == invTasks[kind]
      product == t.product[1]
  IN
  /\ t.pc = "write"
  /\ \E ok \in Outcomes :
       /\ nFail' = IF ok THEN nFail ELSE nFail + 1
       /\ IF ok /\ (t.op = "update" => product.id \in DOMAIN dbProducts)
          THEN /\ dbProducts' =
                    CASE t.op = "update" -> [dbProducts EXCEPT ![product.id] = product @@ @]
                      [] t.op = "add" -> PutDoc(dbProducts, product)
                      [] OTHER -> [q \in DOMAIN dbProducts \ {product.id} |-> dbProducts[q]]
               /\ productCache' = [productCache EXCEPT ![CacheSession] = None]
               /\ invTasks' = [invTasks EXCEPT ![kind].pc = "log"]
          ELSE /\ UNCHANGED << dbProducts, productCache >>
               /\ invTasks' = [invTasks EXCEPT ![kind] = IdleHandler]
  /\ UNCHANGED << now, dbLogs, call, currentUser, inventory, nInvOps >>
  /\ InvFrame

\* await db.logs.add({...}) of a handler completes, or is rejected and the
\* catch branch of the handler ends it
HandlerLog(kind) ==
  LET t == invTasks[kind] IN
  /\ t.pc = "log"
  /\ now' \in Clock
  /\ \E ok \in Outcomes :
       /\ nFail' = IF ok THEN nFail ELSE nFail + 1
       /\ dbLogs' = IF ok
                    THEN SetDoc(dbLogs,
                           [id |-> now', saleId |-> 0, userId |-> t.by[1].id,
                            action |-> CASE kind = "adjust" -> "Stock Adjustment"
                                         [] kind = "delete" -> "Product Deleted"
                                         [] t.op = "update" -> "Product Updated"
                                         [] OTHER -> "Product Added"])
                    ELSE dbLogs
       /\ invTasks' = [invTasks EXCEPT ![kind] =
                         IF ok THEN [t EXCEPT !.pc = "fetch"] ELSE IdleHandler]
  /\ UNCHANGED << dbProducts, productCache, call, currentUser, inventory, nInvOps >>
  /\ InvFrame

\* await fetchData() of a handler or of the mount: products.getAll returns
\* its cache, or reads the collection and caches it, or on a rejected read
\* returns productCache || INITIAL_PRODUCTS (which it also returns for an
\* empty collection); setProducts; the handler closes its dialog and ends
HandlerFetch(kind) ==
  LET t == invTasks[kind] IN
  /\ t.pc = "fetch"
  /\ \E ok \in IF productCache[CacheSession] # None THEN {TRUE} ELSE Outcomes :
       LET got == IF productCache[CacheSession] # None THEN productCache[CacheSession][1]
                  ELSE IF ok /\ DOMAIN dbProducts # {} THEN dbProducts
                  ELSE InventorySeed
           page == [inventory EXCEPT !.products = got]
       IN /\ nFail' = IF ok THEN nFail ELSE nFail + 1
          /\ productCache' = IF ok THEN [productCache EXCEPT ![CacheSession] = Some(got)]
                             ELSE productCache
          /\ inventory' =
               CASE kind = "save" -> [page EXCEPT !.isModalOpen = FALSE]
                 [] kind = "adjust" -> [page EXCEPT !.adjustProduct = None]
                 [] kind = "delete" -> [page EXCEPT !.productToDelete = None]
                 [] OTHER -> page
  /\ invTasks' = [invTasks EXCEPT ![kind] = IdleHandler]
  /\ UNCHANGED << now, dbProducts, dbLogs, call, currentUser, nInvOps >>
  /\ InvFrame

\* a sale of another client takes one unit of the product p; a client of
\* the document store whose catalog is stale sells a product that has run
\* out, and increment(-1) takes the stock below 0
ReduceStockElsewhere(p) ==
  /\ p \in DOMAIN dbProducts
  /\ variant = "ls" => dbProducts[p].stock >= 1
  /\ nInvOps < MaxInvOps
  /\ nInvOps' = nInvOps + 1
  /\ dbProducts' = IF variant = "fs" THEN reduceStock(dbProducts, p, 1)
                                     ELSE reduceStockLs(dbProducts, p, 1)
  /\ UNCHANGED << now, dbLogs, productCache, nFail, call, currentUser,
                  inventory, invTasks >>
  /\ InvFrame

\* the App renders the page with another user: setCurrentUser(profile) by
\* the auth-state listener while currentView stays 'inventory'
UserReplaced(u) ==
  /\ variant = "fs"
  /\ u # currentUser[1]
  /\ nInvOps < MaxInvOps
  /\ nInvOps' = nInvOps + 1
  /\ currentUser' = Some(u)
  /\ UNCHANGED << now, dbProducts, dbLogs, productCache, nFail, call,
                  inventory, invTasks >>
  /\ InvFrame

InvNext ==
  \/ HandleOpenModal(None)
  \/ \E p \in DOMAIN inventory.products : HandleOpenModal(Some(inventory.products[p]))
  \/ \E k \in DOMAIN BlankForm : \E v \in FieldInput(k) : SetField(k, v)
  \/ CloseModal
  \/ HandleSave
  \/ HandleSaveLs
  \/ \E p \in DOMAIN inventory.products : HandleOpenAdjust(p)
  \/ \E q \in 0 .. MaxAdjustQty : SetAdjustQty(q)
  \/ CancelAdjust
  \/ HandleSaveAdjust
  \/ \E p \in DOMAIN inventory.products : AskDelete(p)
  \/ CancelDelete
  \/ ConfirmDelete
  \/ \E kind \in DOMAIN invTasks : HandlerWrite(kind)
  \/ \E kind \in DOMAIN invTasks : HandlerLog(kind)
  \/ \E kind \in DOMAIN invTasks : HandlerFetch(kind)
  \/ \E p \in DOMAIN dbProducts : ReduceStockElsewhere(p)
  \/ \E u \in InvUsers : UserReplaced(u)

SpecInventory == InvInit /\ [][InvNext]_vars

\* ------------------------------------------------------------ properties
\* the quantity of product p in the cart c (a cart has one line per product)
QtyOf(c, p) ==
  IF HasLine(c, p) THEN c[CHOOSE i \in 1 .. Len(c) : c[i].id = p].quantity ELSE 0

\* C1: in every reachable state the stock of every product of the store is
\* at least 0, whatever sales the sessions finalize
StockNeverNegative ==
  \A p \in DOMAIN dbProducts : dbProducts[p].stock >= 0

\* C2: a confirmed payment on a non-empty cart whose sale write is accepted
\* adds exactly one record to the sales, and the subtotal, tax and total of
\* that record are the pricing calculation of the cart and settings the
\* payment was confirmed with
OneSalePerConfirmedPayment ==
  [][ /\ \A s \in Sessions, k \in Slots :
           ( /\ variant = "fs"
             /\ tasks[s][k].pc = "saleAdd"
             /\ tasks'[s][k].pc = "logAdd"
             /\ tasks[s][k].cart # << >> )
           => LET t == tasks[s][k]
                  r == dbSales'[Len(dbSales')]
                  tot == cartTotals(t.cart, t.settings)
              IN /\ Len(dbSales') = Len(dbSales) + 1
                 /\ r.id = t.sale[1].id
                 /\ r.subtotal = tot.subtotal
                 /\ r.tax = tot.tax
                 /\ r.total = tot.total
      /\ \A s \in Sessions :
           ( /\ variant = "ls"
             /\ receiptSale[s] = None
             /\ receiptSale'[s] # None
             /\ cart[s] # << >> )
           => LET r == dbSales'[Len(dbSales')]
                  tot == cartTotalsLs(cart[s])
              IN /\ Len(dbSales') = Len(dbSales) + 1
                 /\ r = receiptSale'[s][1]
                 /\ r.subtotal = tot.subtotal
                 /\ r.tax = tot.tax
                 /\ r.total = tot.total ]_vars

\* C3: a stock decrement of a finalize that is applied leaves the product
\* of its line with max(0, previous stock - sold quantity) and every other
\* product with its stock unchanged (document store: each step of the
\* loop; localStorage: the whole finalize, which is one step)
DecrementFlooredAtZero ==
  [][ /\ \A s \in Sessions, k \in Slots :
           ( /\ tasks[s][k].pc = "reduce"
             /\ tasks'[s][k].applied # tasks[s][k].applied )
           => LET item == tasks[s][k].cart[tasks[s][k].idx]
              IN /\ DOMAIN dbProducts' = DOMAIN dbProducts
                 /\ \A p \in DOMAIN dbProducts :
                      dbProducts'[p].stock =
                        IF p = item.id
                        THEN Max(0, dbProducts[p].stock - item.quantity)
                        ELSE dbProducts[p].stock
      /\ \A s \in Sessions :
           ( /\ variant = "ls"
             /\ receiptSale[s] = None
             /\ receiptSale'[s] # None )
           => /\ DOMAIN dbProducts' = DOMAIN dbProducts
              /\ \A p \in DOMAIN dbProducts :
                   dbProducts'[p].stock =
                     Max(0, dbProducts[p].stock - QtyOf(cart[s], p)) ]_vars

\* C4: every line of every cart is a product of the catalog the session
\* has loaded, with 1 <= quantity <= the stock of that product there
CartWithinStock ==
  \A s \in Sessions : \A i \in 1 .. Len(cart[s]) :
    /\ cart[s][i].id \in DOMAIN products[s]
    /\ 1 <= cart[s][i].quantity
    /\ cart[s][i].quantity <= products[s][cart[s][i].id].stock

\* C4, witness: increments have taken a line up to the stock of its product
CartAtStockLimit ==
  \E s \in Sessions : \E i \in 1 .. Len(cart[s]) :
    /\ cart[s][i].id \in DOMAIN products[s]
    /\ cart[s][i].quantity >= 2
    /\ cart[s][i].quantity = products[s][cart[s][i].id].stock
    /\ nCartOps = MaxCartOps

\* C5: for every cart and every tax rate configured (the default 16.5
\* percent when none is), the pricing calculation gives the sum of
\* price * quantity as subtotal, subtotal * rate / 100 as tax, and
\* subtotal + tax as total
PricingFollowsConfiguredRate ==
  priced # None =>
    LET c == cart[PricingSession]
        st == storeSettings[PricingSession]
        rate == IF variant = "fs" /\ st # None THEN st[1] ELSE DEFAULT_TAX_RATE
    IN /\ priced[1].subtotal = CartSum(c) * 1000
       /\ priced[1].tax = CartSum(c) * rate
       /\ priced[1].total = priced[1].subtotal + priced[1].tax

\* C6: a finalize on an empty cart persists nothing: no sale without items
\* is in the store and no log entry refers to one
EmptyCartPersistsNothing ==
  /\ \A i \in 1 .. Len(dbSales) : dbSales[i].items # << >>
  /\ \A s \in Sessions, k \in Slots :
       tasks[s][k].pc \in {"logAdd", "reduce", "fetch", "resolve"}
         /\ tasks[s][k].kind = "pay" => tasks[s][k].sale[1].items # << >>

\* C7: a finalize whose sale write is rejected ends there: it has reached
\* no cart line and applied no decrement, and the step in which the write
\* is rejected leaves every product of the store as it was
SaleWriteFailureAborts ==
  /\ [](\A s \in Sessions, k \in Slots :
          tasks[s][k].failedAt = "saleAdd"
            => /\ tasks[s][k].pc = "failed"
               /\ tasks[s][k].idx = 0
               /\ tasks[s][k].applied = {})
  /\ [][\A s \in Sessions, k \in Slots :
          ( /\ tasks[s][k].failedAt # "saleAdd"
            /\ tasks'[s][k].failedAt = "saleAdd" )
          => dbProducts' = dbProducts]_vars

\* C7, witness: the sale write of a finalize on a non-empty cart was rejected
SaleWriteRejected ==
  \E s \in Sessions, k \in Slots :
    /\ tasks[s][k].failedAt = "saleAdd"
    /\ tasks[s][k].lines > 0
    /\ dbSales = << >>

\* C8: when the decrement of one line of a finalize is rejected, the
\* decrements of all its other lines are applied
OtherLinesStillDecremented ==
  \A s \in Sessions, k \in Slots :
    tasks[s][k].failedAt = "reduce"
      => (1 .. tasks[s][k].lines) \ {tasks[s][k].idx} \subseteq tasks[s][k].applied

\* C9: a sale write whose identifier is the identifier of a sale already in
\* the store is rejected and leaves the sales as they were
CollisionIsFatal ==
  [][ /\ \A s \in Sessions, k \in Slots :
           ( /\ tasks[s][k].pc = "saleAdd"
             /\ tasks'[s][k] # tasks[s][k]
             /\ HasDoc(dbSales, tasks[s][k].sale[1].id) )
           => /\ dbSales' = dbSales
              /\ tasks'[s][k].failedAt = "saleAdd"
      /\ ( /\ variant = "ls"
           /\ nConfirm' # nConfirm
           /\ HasDoc(dbSales, now') )
         => dbSales' = dbSales ]_vars

\* C10: a sale in the store stays in the store with the same field values
PersistedSalesNeverChange ==
  [][\A i \in 1 .. Len(dbSales) :
       /\ i <= Len(dbSales')
       /\ dbSales'[i] = dbSales[i]]_vars

RECURSIVE LineTotals(_)
\* the sum of the line totals of the items of a sale, in units
LineTotals(items) ==
  IF items = << >> THEN 0 ELSE items[1].total + LineTotals(Tail(items))

\* C11: in every sale of the store each line total is unit price * quantity,
\* the subtotal is the sum of the line totals and the total is subtotal + tax
SaleArithmetic ==
  \A i \in 1 .. Len(dbSales) :
    /\ \A j \in 1 .. Len(dbSales[i].items) :
         dbSales[i].items[j].total =
           dbSales[i].items[j].price * dbSales[i].items[j].quantity
    /\ dbSales[i].subtotal = LineTotals(dbSales[i].items) * 1000
    /\ dbSales[i].total = dbSales[i].subtotal + dbSales[i].tax

\* C11, witness: a sale with a line of quantity 2 and tax is in the store
SaleWithQuantityTwo ==
  \E i \in 1 .. Len(dbSales) : \E j \in 1 .. Len(dbSales[i].items) :
    /\ dbSales[i].items[j].quantity = 2
    /\ dbSales[i].tax > 0

\* C12: every item of every sale of the store carries a unit cost, and it
\* is the cost price of its product in the catalog when the sale was made
\* (no step of Spec changes a cost price, so that is the seeded cost price)
ItemCostIsCatalogCost ==
  \A i \in 1 .. Len(dbSales) : \A j \in 1 .. Len(dbSales[i].items) :
    /\ "costPrice" \in DOMAIN dbSales[i].items[j]
    /\ dbSales[i].items[j].costPrice =
         INITIAL_PRODUCTS[dbSales[i].items[j].productId].costPrice

AddSemantics ==
  (call # None /\ call[1].op = "add") =>
    LET b == call[1].before
        c == cart[CartSession]
        id == call[1].id
        stock == products[CartSession][id].stock
    IN IF stock = 0 \/ (HasLine(b, id) /\ QtyOf(b, id) = stock)
       THEN c = b
       ELSE IF HasLine(b, id)
            THEN /\ Len(c) = Len(b)
                 /\ \A i \in 1 .. Len(b) :
                      IF b[i].id = id
                      THEN c[i] = [b[i] EXCEPT !.quantity = b[i].quantity + 1]
                      ELSE c[i] = b[i]
            ELSE /\ Len(c) = Len(b) + 1
                 /\ \A i \in 1 .. Len(b) : c[i] = b[i]
                 /\ c[Len(c)].id = id
                 /\ c[Len(c)].quantity = 1

\* C14, witness: addToCart was called on a product whose line is at the stock
AddAtStockLimit ==
  /\ call # None
  /\ call[1].op = "add"
  /\ HasLine(call[1].before, call[1].id)
  /\ QtyOf(call[1].before, call[1].id) = products[CartSession][call[1].id].stock
  /\ Len(call[1].before) = 2

\* C15: while a finalize of a session is in progress the session accepts
\* no other operation: its cart changes only by the reset of that finalize
\* and no second finalize of the session starts
FinalizeRunsToCompletion ==
  [][\A s \in Sessions :
       (\E k \in Slots : tasks[s][k].kind = "pay" /\ ~Finished(tasks[s][k])) =>
         /\ cart'[s] # cart[s] =>
              (cart'[s] = << >> /\ receiptSale'[s] # receiptSale[s])
         /\ \A k \in Slots :
              tasks'[s][k].pc = "saleAdd" => tasks[s][k].pc = "saleAdd"]_vars

\* C16: closing the payment dialog without confirming leaves the sales, the
\* log, the products of the store and the cart of the session as they
\* were, and starts no finalize
CancelPersistsNothing ==
  [][\A s \in Sessions :
       (isCheckingOut[s] /\ ~isCheckingOut'[s] /\ nConfirm' = nConfirm)
         => /\ dbSales' = dbSales
            /\ dbLogs' = dbLogs
            /\ dbProducts' = dbProducts
            /\ cart'[s] = cart[s]
            /\ tasks'[s] = tasks[s]]_vars

\* C16, witness: the payment dialog has been closed without a sale.  In the
\* localStorage variant a rejected sale write leaves the dialog open and
\* its record in the slot, and a sale that succeeds clears that record, so
\* only the X of the dialog leads to this state
CancelledAfterRejectedWrite ==
  \E s \in Sessions :
    /\ variant = "ls"
    /\ tasks[s][1].failedAt = "saleAdd"
    /\ ~isCheckingOut[s]
    /\ cart[s] # << >>
    /\ dbSales = << >>

\* C18: an entry of the log stays in the log as it was stored
LogsAppendOnly ==
  [][\A i \in 1 .. Len(dbLogs) :
       /\ i <= Len(dbLogs')
       /\ dbLogs'[i] = dbLogs[i]]_vars

\* C17: a getAll answered from the cache returns what the store holds
\* after the writes of the client that have completed (in SpecCache the
\* client is the only writer, every write completes in its step and no
\* write has followed the getAll that `call` holds, so that is the store)
CacheNeverStale ==
  (call # None /\ call[1].op = "getAll" /\ call[1].src = "cache")
    => call[1].result = Shown(dbProducts)

\* m is the fraction profit / rev * 100
IsPercentOf(m, profit, rev) ==
  LET g == GCD(IF profit < 0 THEN 0 - profit ELSE profit, rev)
      d == rev \div g
  IN /\ m.den > 0
     /\ d % m.den = 0
     /\ 100 % (d \div m.den) = 0
     /\ m.num = (profit \div g) * (100 \div (d \div m.den))

\* C19: the report gives grossProfit = revenue - COGS, netProfit =
\* grossProfit - totalExpenses, each margin = profit / revenue * 100 when
\* revenue > 0 and 0 when revenue is 0; revenue 100000, COGS 60000 and
\* expenses 15000 + 50000 give gross 40000, net -25000, net margin -25
ProfitAndLoss ==
  (report # None /\ report[1].pnl # None) =>
    LET r == report[1].pnl[1]
    IN /\ r.grossProfit = r.revenue - r.cogs
       /\ r.netProfit = r.grossProfit - r.totalExpenses
       /\ IF r.revenue > 0
          THEN /\ IsPercentOf(r.grossMargin, r.grossProfit, r.revenue)
               /\ IsPercentOf(r.netMargin, r.netProfit, r.revenue)
          ELSE /\ r.revenue = 0
               /\ r.grossMargin = ZeroPercent
               /\ r.netMargin = ZeroPercent
       /\ r.filteredSales = << >> => r.revenue = 0
       /\ (r.revenue = 100000000 /\ r.cogs = 60000000 /\ r.totalExpenses = 65000000)
            => /\ r.grossProfit = 40000000
               /\ r.netProfit = 0 - 25000000
               /\ r.netMargin = [num |-> 0 - 25, den |-> 1]

\* C19, witness: the report of the example has been computed
ReportOfTheExample ==
  /\ report # None
  /\ report[1].pnl # None
  /\ report[1].pnl[1].revenue = 100000000
  /\ report[1].pnl[1].cogs = 60000000
  /\ report[1].pnl[1].totalExpenses = 65000000

\* the lines of the sales of the report that are in its range, as << sale,
\* line >> (a list of sales of ReportInit holds at most two sales of one line)
LinesInRange ==
  {<< i, j >> \in (1 .. 2) \X (1 .. 1) :
     /\ i <= Len(report[1].sales)
     /\ j <= Len(report[1].sales[i].items)
     /\ InRange(report[1].sales[i].id, report[1].range)}

\* C20: COGS is the sum over the lines of the sales in range of unit cost *
\* quantity, the unit cost being the cost stored in the line when there is
\* one and the current cost price of the product otherwise (stated for the
\* reports in which every line without a stored cost has its product in
\* the catalog)
CogsUsesStoredCost ==
  ( /\ report # None
    /\ report[1].pnl # None
    /\ \A l \in LinesInRange :
         "costPrice" \in DOMAIN report[1].sales[l[1]].items[l[2]]
           \/ report[1].sales[l[1]].items[l[2]].productId \in DOMAIN report[1].products )
  => LET line(l) == report[1].sales[l[1]].items[l[2]]
         cost(l) == IF "costPrice" \in DOMAIN line(l) THEN line(l).costPrice
                    ELSE report[1].products[line(l).productId].costPrice
         due(l) == IF l \in LinesInRange THEN cost(l) * line(l).quantity * 1000 ELSE 0
     IN report[1].pnl[1].cogs = due(<< 1, 1 >>) + due(<< 2, 1 >>)

\* C20, witness: a report over a line whose stored cost is not the current
\* cost price of its product and a line without a stored cost
ReportWithBothKindsOfLine ==
  /\ report # None
  /\ report[1].pnl # None
  /\ Len(report[1].pnl[1].filteredSales) = 2
  /\ \E l \in LinesInRange :
       /\ "costPrice" \in DOMAIN report[1].sales[l[1]].items[l[2]]
       /\ report[1].sales[l[1]].items[l[2]].costPrice #
            report[1].products[report[1].sales[l[1]].items[l[2]].productId].costPrice
  /\ \E l \in LinesInRange :
       /\ "costPrice" \notin DOMAIN report[1].sales[l[1]].items[l[2]]
       /\ report[1].sales[l[1]].items[l[2]].productId \in DOMAIN report[1].products

LogFailureStopsFinalize ==
  /\ [](\A s \in Sessions, k \in Slots :
          tasks[s][k].failedAt = "logAdd"
            => /\ tasks[s][k].pc = "failed"
               /\ tasks[s][k].idx = 0
               /\ tasks[s][k].applied = {})
  /\ [][\A s \in Sessions, k \in Slots :
          ( /\ tasks[s][k].pc = "logAdd"
            /\ tasks'[s][k].failedAt = "logAdd" )
          => /\ dbSales' = dbSales
             /\ HasDoc(dbSales', tasks[s][k].sale[1].id)
             /\ dbProducts' = dbProducts
             /\ cart'[s] = cart[s]
             /\ receiptSale'[s] = receiptSale[s]]_vars

\* C26, witness: the log append of a finalize of a cart with lines was
\* rejected after its sale was written; the cart still holds the lines
LogAppendRejected ==
  \E s \in Sessions, k \in Slots :
    /\ tasks[s][k].failedAt = "logAdd"
    /\ tasks[s][k].lines > 0
    /\ Len(dbSales) = 1
    /\ dbLogs = << >>
    /\ Len(cart[s]) = tasks[s][k].lines
    /\ dbProducts = INITIAL_PRODUCTS

\* the sale x is a record of the sales of the store
Persisted(coll, x) == \E i \in 1 .. Len(coll) : coll[i] = x

\* C30: the step that ends a finalize with every store call accepted leaves
\* the cart of the session empty and the receipt showing the sale, which
\* is a record of the store; the step that ends a finalize by a rejected
\* store call leaves the cart with the lines it had when the payment was
\* confirmed
CartClearedIffFinalizeSucceeds ==
  [][ /\ \A s \in Sessions, k \in Slots :
           LET t == tasks[s][k]
               u == tasks'[s][k]
           IN /\ (t.kind = "pay" /\ t.pc = "resolve" /\ u.pc = "idle")
                   => /\ cart'[s] = << >>
                      /\ receiptSale'[s] = t.sale
                      /\ Persisted(dbSales', t.sale[1])
              /\ (t.kind = "pay" /\ ~Finished(t) /\ u.pc = "failed")
                   => cart'[s] = t.cart
      /\ \A s \in Sessions :
           (variant = "ls" /\ nConfirm' # nConfirm) =>
             IF receiptSale'[s] # receiptSale[s]
             THEN /\ cart'[s] = << >>
                  /\ Persisted(dbSales', receiptSale'[s][1])
             ELSE cart'[s] = cart[s] ]_vars

LogoutClearsUserAndView ==
  [][(signingOut' + signedOut' < signingOut + signedOut)
       => (currentUser' = None /\ currentView' = "dashboard")]_vars

\* C29, witness: a demo user, whom the listener keeps, has logged in and
\* logged out, the signOut of the logout having thrown (the rejected call
\* is that signOut: the log of the login was written, and no account was
\* signed in)
DemoUserLoggedOut ==
  /\ \E i \in 1 .. Len(dbLogs) : dbLogs[i].userId \in DemoIds
  /\ nAppOps = 2
  /\ nFail = 1
  /\ listeners = {}
  /\ authUser = None
  /\ currentUser = None
  /\ currentView = "dashboard"
  /\ signingOut = 0
  /\ signedOut = 0

\* C24: a read that the store rejected has returned to its caller, with the
\* cached products when there is a cache and the seed products otherwise
\* (products.getAll), the empty list (sales.getAll), the default settings
\* (settings.get); no read ends in an exception
ReadsDegrade ==
  /\ \A k \in DOMAIN tasks[CacheSession] :
       tasks[CacheSession][k].kind \in ReadKinds => tasks[CacheSession][k].pc # "failed"
  /\ (call # None /\ call[1].op \in ReadKinds /\ call[1].src = "fail") =>
       /\ call[1].op = "getAll" =>
            call[1].result = IF productCache[CacheSession] # None
                             THEN productCache[CacheSession][1]
                             ELSE INITIAL_PRODUCTS
       /\ call[1].op = "sales.getAll" => call[1].result = << >>
       /\ call[1].op = "settings.get" => call[1].result = DEFAULT_TAX_RATE

\* C24, witness: a getAll whose read was rejected has returned the cache
\* that another getAll had filled meanwhile, which is not the seed
RejectedGetAllReturnedCache ==
  /\ call # None
  /\ call[1].op = "getAll"
  /\ call[1].src = "fail"
  /\ productCache[CacheSession] # None
  /\ call[1].result = productCache[CacheSession][1]
  /\ call[1].result # INITIAL_PRODUCTS

\* C22: a handleSave on a form with a blank name or barcode, a negative
\* stock, threshold, cost or price, or a price that does not exceed the cost
\* only sets the errors: it issues no product write and no log entry and
\* leaves the store and the products shown as they are; while such a form is
\* shown no save starts (and the localStorage store changes at most in its
\* stocks, by sales); hence every product write a handleSave has issued
\* passes the validation and every product of the store has price > cost
InvalidFormNeverPersisted ==
  /\ [](/\ \A p \in DOMAIN dbProducts : dbProducts[p].price > dbProducts[p].costPrice
        /\ invTasks["save"].pc = "write" =>
             /\ Validate(invTasks["save"].product[1]) = {}
             /\ invTasks["save"].product[1].price > invTasks["save"].product[1].costPrice)
  /\ [][ /\ (inventory'.errors # inventory.errors /\ inventory'.errors # {}) =>
              /\ inventory'.errors = Validate(inventory.formData)
              /\ UNCHANGED << dbProducts, dbLogs, productCache, invTasks >>
              /\ inventory'.products = inventory.products
         /\ (FormShown /\ Validate(inventory.formData) # {}) =>
              /\ Busy("save")' => Busy("save")
              /\ variant = "ls" =>
                   /\ dbLogs' = dbLogs
                   /\ DOMAIN dbProducts' = DOMAIN dbProducts
                   /\ \A p \in DOMAIN dbProducts :
                        [dbProducts'[p] EXCEPT !.stock = dbProducts[p].stock]
                          = dbProducts[p] ]_vars

\* a form whose price does not exceed its cost was rejected, the store as
\* it was
RejectedFormLeftStore ==
  /\ inventory.isModalOpen
  /\ inventory.errors = {"price"}
  /\ Validate(inventory.formData) = {"price"}
  /\ inventory.formData.price >= 0
  /\ dbProducts = InventorySeed
  /\ dbLogs = << >>
  /\ \A kind \in DOMAIN invTasks : ~Busy(kind)

\* C23: no two products of the store have the same barcode
BarcodesUnique ==
  \A p, q \in DOMAIN dbProducts :
    p # q => dbProducts[p].barcode # dbProducts[q].barcode

\* C27: the product write of a save of an edit whose form has the stock the
\* form was opened with leaves the stock of the stored product as it is
EditKeepsStoredStock ==
  [][ /\ LET t == invTasks["save"] IN
           ( /\ t.pc = "write" /\ invTasks'["save"].pc = "log"
             /\ t.op = "update"
             /\ t.product[1].stock = t.editing[1].stock )
           => dbProducts'[t.product[1].id].stock = dbProducts[t.product[1].id].stock
      /\ LET f == inventory.formData
             e == inventory.editingProduct
         IN ( /\ variant = "ls" /\ FormShown /\ ~inventory'.isModalOpen
              /\ Validate(f) = {} /\ e # None
              /\ f.stock = e[1].stock
              /\ e[1].id \in DOMAIN dbProducts )
            => dbProducts'[e[1].id].stock = dbProducts[e[1].id].stock ]_vars

====
